---- MODULE Spec2Model ----
(***************************************************************************)
(* Formulation engine of oemof.solph: the blocks that translate a network *)
(* of flows, buses and converters into the variables and constraints of   *)
(* one Pyomo model.  A block is formulated by a fixed sequence of build   *)
(* steps (set creation, variable creation, one BuildAction per constraint *)
(* family); every step is one action.  The network and the period index  *)
(* are inputs, chosen in Init and never changed by a step.                *)
(***************************************************************************)
EXTENDS Integers, Sequences, FiniteSets, TLC

VARIABLES
    cfg,    \* the network and the period index the block is formulated for
    blk,    \* the block class being formulated
    pc,     \* the next build step of the block
    sets,   \* the block's Pyomo Sets:        name -> sequence of members
    bvars,  \* the block's Pyomo Vars:        name -> [key -> <<lb, ub, domain>>]
    cons,   \* the block's Pyomo Constraints: name -> [key -> constraint]
    err,    \* the exception raised by formulation, None while there is none
    obj     \* what _objective_expression left: None until it has run

vars == <<cfg, blk, pc, sets, bvars, cons, err, obj>>

----------------------------------------------------------------------------
(* Bounds of the model.                                                    *)

MaxPeriods == 4       \* periods of the period index
MaxGap == 2           \* years between two consecutive periods
StepsPerPeriod == 2   \* timesteps of one period
MaxLifetime == 3      \* lifetime of an investment, in years
MaxAge == 1           \* age of the existing capacity, in years
MaxGroup == 2         \* flows (nodes) of a group with several members
MaxVal == 2           \* value of a decision variable in an assignment
MaxHorizon == 6       \* timesteps of a standard model with non-convex flows
MaxUpDown == 2        \* minimum uptime and downtime, in timesteps

----------------------------------------------------------------------------
(* Python values.                                                          *)

None == << >>
Some(x) == <<x>>
Val(o) == o[1]

Range(s) == {s[k] : k \in DOMAIN s}

MinOf(S) == CHOOSE x \in S : \A y \in S : x <= y

(* A time series (oemof "sequence"): len is what len() gives, the value at *)
(* index t is v0 + dv * t.                                                 *)
At(s, t) == s.v0 + s.dv * t

Scalar(x) == [len |-> 0, v0 |-> x, dv |-> 0]
Listed(x, d) == [len |-> 2, v0 |-> x, dv |-> d]

----------------------------------------------------------------------------
(* Linear expressions and constraints, as Pyomo builds them.               *)
(* A variable is <<component, index of the flow or node, period, timestep>>*)
(* (-1 where the component has no such index).                             *)

NoIdx == 0 - 1

V(name, io, p, t) == <<name, io, p, t>>

\* the expression c0 + sum of coef[v] * v
Lin(c0, coef) == [c |-> c0, ts |-> coef]
Const(c0) == Lin(c0, << >>)
Term(k, v) == Lin(0, (v :> k))

Plus(a, b) ==
    Lin(a.c + b.c,
        [v \in DOMAIN a.ts \cup DOMAIN b.ts |->
            (IF v \in DOMAIN a.ts THEN a.ts[v] ELSE 0)
          + (IF v \in DOMAIN b.ts THEN b.ts[v] ELSE 0)])

Neg(a) == Lin(0 - a.c, [v \in DOMAIN a.ts |-> 0 - a.ts[v]])
Minus(a, b) == Plus(a, Neg(b))
Times(k, a) == Lin(k * a.c, [v \in DOMAIN a.ts |-> k * a.ts[v]])

RECURSIVE SumLin(_)
\* Python's sum() over a sequence of expressions
SumLin(s) == IF s = << >> THEN Const(0) ELSE Plus(s[1], SumLin(Tail(s)))

Eq(l, r) == [lhs |-> l, op |-> "==", rhs |-> r]
Le(l, r) == [lhs |-> l, op |-> "<=", rhs |-> r]
Ge(l, r) == [lhs |-> l, op |-> ">=", rhs |-> r]

\* the variables a constraint mentions
VarsOf(c) == DOMAIN c.lhs.ts \cup DOMAIN c.rhs.ts

RECURSIVE SumOver(_, _, _)
SumOver(S, coef, val) ==
    IF S = {} THEN 0
    ELSE LET v == CHOOSE x \in S : TRUE
         IN coef[v] * val[v] + SumOver(S \ {v}, coef, val)

\* value of an expression under an assignment of its variables
Eval(e, val) == e.c + SumOver(DOMAIN e.ts, e.ts, val)

\* whether an assignment satisfies a constraint
Holds(c, val) ==
    LET l == Eval(c.lhs, val)
        r == Eval(c.rhs, val)
    IN CASE c.op = "==" -> l = r
         [] c.op = "<=" -> l <= r
         [] c.op = ">=" -> l >= r

\* the assignments of a set of variables to values 0..MaxVal
Assignments(S) == [S -> 0..MaxVal]

----------------------------------------------------------------------------
(* The period index and the network (external collaborators).              *)

RECURSIVE YearSeqsOfLen(_)
\* the year offsets of n periods: 0 first, strictly increasing
YearSeqsOfLen(n) ==
    IF n = 1 THEN {<<0>>}
    ELSE {Append(s, s[n - 1] + g) : s \in YearSeqsOfLen(n - 1), g \in 1..MaxGap}

YearSeqs == UNION {YearSeqsOfLen(n) : n \in 1..MaxPeriods}

Uniform(years) == \A k \in DOMAIN years : years[k] = k - 1

\* a standard model has the single period 0; a multi-period model has one
\* period per entry of es.periods_years
ModelConfigs ==
    {[multi_period |-> FALSE, years |-> <<0>>]}
    \cup {[multi_period |-> TRUE, years |-> y] : y \in YearSeqs}

PERIODS == 0..(Len(cfg.years) - 1)
LastPeriod == Len(cfg.years) - 1
periods_years(p) == cfg.years[p + 1]

NSteps == Len(cfg.years) * StepsPerPeriod
TIMESTEPS == 0..(NSteps - 1)
\* the (period, timestep) pairs, in order
TIMEINDEX == [k \in 1..NSteps |-> <<(k - 1) \div StepsPerPeriod, k - 1>>]
timeincrement(t) == 1 + (t % 2)

\* the flow from source node k into bus 0
FlowId(k) == <<k, 0>>

DefaultAttr ==
    [nonconvex |-> FALSE, lifetime |-> Some(2), age |-> 0, existing |-> 2,
     minimum |-> Scalar(0), maximum |-> Scalar(3),
     overall_maximum |-> None, overall_minimum |-> None,
     fix |-> None, min |-> Scalar(0), max |-> Scalar(1),
     full_load_time_max |-> None, full_load_time_min |-> None]

\* existing capacities: none and some
Existings == {0, 2}

Lifetimes == {None} \cup {Some(l) : l \in 1..MaxLifetime}

\* investment flows that differ in lifetime, age and existing capacity
AccountingAttrs ==
    {[DefaultAttr EXCEPT !.lifetime = l, !.age = a, !.existing = e] :
        l \in Lifetimes, a \in 0..MaxAge, e \in Existings}

AgedAttrs == {x \in AccountingAttrs :
                 IF x.lifetime = None THEN x.age = 0 ELSE x.age <= Val(x.lifetime)}

\* investment flows that differ in convexity, bounds and overall limits
BoundAttrs ==
    {[DefaultAttr EXCEPT !.nonconvex = nc, !.minimum = b[1], !.maximum = b[2],
                         !.overall_maximum = omax, !.overall_minimum = omin] :
        nc \in BOOLEAN,
        b \in {<<Scalar(0), Scalar(3)>>, <<Listed(1, 1), Listed(2, 1)>>},
        omax \in {None, Some(1)}, omin \in {None, Some(1)}}

\* investment flows that differ in their time series
SeriesAttrs ==
    {[DefaultAttr EXCEPT !.fix = fx, !.min = mn,
                         !.full_load_time_max = fmax, !.full_load_time_min = fmin] :
        fx \in {None, Some(Listed(1, 1))},
        mn \in {Scalar(0), Scalar(1), Listed(0, 1), Listed(0, 0)},
        fmax \in {None, Some(2)}, fmin \in {None, Some(1)}}

\* the flows of a group with several members
CompanionAttrs ==
    {[DefaultAttr EXCEPT !.lifetime = l, !.nonconvex = s[1], !.fix = s[2]] :
        l \in {None, Some(2)},
        s \in {<<FALSE, None>>, <<TRUE, Some(Listed(1, 1))>>}}

\* a network of investment flows: the group handed to the block and m.flows
Networks ==
    {[group |-> <<FlowId(1)>>, flows |-> (FlowId(1) :> a)] :
        a \in AgedAttrs \cup BoundAttrs \cup SeriesAttrs}
    \cup UNION {
        {[group |-> [k \in 1..n |-> FlowId(k)],
          flows |-> [f \in {FlowId(k) : k \in 1..n} |-> as[f[1]]]] :
            as \in [1..n -> CompanionAttrs]} : n \in 2..MaxGroup}

\* Scenario B: minimum 5, maximum 50, no existing capacity, lifetime 3, over
\* the periods 0..4 of one year each
ScenarioB ==
    [multi_period |-> TRUE, years |-> <<0, 1, 2, 3, 4>>,
     group |-> Some(<<FlowId(1)>>),
     flows |-> (FlowId(1) :>
                  [DefaultAttr EXCEPT !.minimum = Scalar(5), !.maximum = Scalar(50),
                                      !.existing = 0, !.lifetime = Some(3)])]

InvestConfigs ==
    {ScenarioB}
    \cup
    {[multi_period |-> mc.multi_period, years |-> mc.years,
      group |-> Some(nw.group), flows |-> nw.flows] :
        mc \in {x \in ModelConfigs : Uniform(x.years)}, nw \in Networks}
    \cup
    {[multi_period |-> mc.multi_period, years |-> mc.years,
      group |-> Some(<<FlowId(1)>>), flows |-> (FlowId(1) :> a)] :
        mc \in {x \in ModelConfigs : ~Uniform(x.years)}, a \in AgedAttrs}
    \cup
    \* no flow of this shape in the network: the block gets no group
    {[multi_period |-> mc.multi_period, years |-> mc.years,
      group |-> None, flows |-> << >>] :
        mc \in {x \in ModelConfigs : Uniform(x.years)}}

group == Val(cfg.group)
investment(f) == cfg.flows[f]
flows(f) == cfg.flows[f]

\* the members of an ordered Pyomo Set
Members(name) == Range(sets[name])
\* the keys of a component indexed by (flow, period)
PeriodKeys(name) == {<<f, p>> : f \in Members(name), p \in PERIODS}
\* the keys of a component indexed by (flow, period, timestep)
TimeKeys(name) ==
    LET ti == TIMEINDEX
    IN {<<f, ti[k][1], ti[k][2]>> : f \in Members(name), k \in DOMAIN ti}

Declared(name) == name \in DOMAIN cons
Created(name) == name \in DOMAIN bvars

----------------------------------------------------------------------------
(* InvestmentFlowBlock (flows/_investment_flow_block.py).                  *)

\* _create_sets: every Set keeps the order of the group
InvestSets ==
    [INVESTFLOWS |-> group,
     CONVEX_INVESTFLOWS |->
        SelectSeq(group, LAMBDA f : investment(f).nonconvex = FALSE),
     NON_CONVEX_INVESTFLOWS |->
        SelectSeq(group, LAMBDA f : investment(f).nonconvex = TRUE),
     FIXED_INVESTFLOWS |-> SelectSeq(group, LAMBDA f : flows(f).fix # None),
     NON_FIXED_INVESTFLOWS |-> SelectSeq(group, LAMBDA f : flows(f).fix = None),
     FULL_LOAD_TIME_MAX_INVESTFLOWS |->
        SelectSeq(group, LAMBDA f : flows(f).full_load_time_max # None),
     FULL_LOAD_TIME_MIN_INVESTFLOWS |->
        SelectSeq(group, LAMBDA f : flows(f).full_load_time_min # None),
     MIN_INVESTFLOWS |->
        SelectSeq(group, LAMBDA f : At(flows(f).min, 0) # 0 \/ flows(f).min.len > 1),
     EXISTING_INVESTFLOWS |-> group,
     OVERALL_MAXIMUM_INVESTFLOWS |->
        SelectSeq(group, LAMBDA f : investment(f).overall_maximum # None),
     OVERALL_MINIMUM_INVESTFLOWS |->
        SelectSeq(group, LAMBDA f : investment(f).overall_minimum # None)]

\* _create: a block that gets no group creates nothing
InvCreateSets ==
    /\ blk = "InvestmentFlowBlock"
    /\ pc = "create"
    /\ IF cfg.group = None
       THEN /\ pc' = "done"
            /\ UNCHANGED sets
       ELSE /\ sets' = InvestSets
            /\ pc' = "variables"
    /\ UNCHANGED <<cfg, blk, obj, bvars, cons, err>>

NonNegVar == [lb |-> None, ub |-> None, within |-> "NonNegativeReals"]
BinaryVar == [lb |-> None, ub |-> None, within |-> "Binary"]

\* _investvar_bound_rule
InvestvarBounds(f, p) ==
    IF f \in Members("CONVEX_INVESTFLOWS")
    THEN [lb |-> Some(At(investment(f).minimum, p)),
          ub |-> Some(At(investment(f).maximum, p)),
          within |-> "NonNegativeReals"]
    ELSE IF f \in Members("NON_CONVEX_INVESTFLOWS")
    THEN [lb |-> Some(0),
          ub |-> Some(At(investment(f).maximum, p)),
          within |-> "NonNegativeReals"]
    ELSE NonNegVar

\* the decommissioning variables created in every model
DecommissioningVarsAlways ==
    [n \in {"old", "old_end", "old_exo"} |->
        [k \in PeriodKeys("INVESTFLOWS") |-> NonNegVar]]

\* the decommissioning variables exist in a multi-period model only
DecommissioningVars ==
    IF cfg.multi_period
    THEN [n \in {"old", "old_end", "old_exo"} |->
             [k \in PeriodKeys("INVESTFLOWS") |-> NonNegVar]]
    ELSE << >>

\* _create_variables
InvCreateVariables ==
    /\ blk = "InvestmentFlowBlock"
    /\ pc = "variables"
    /\ bvars' =
          ("invest" :> [k \in PeriodKeys("INVESTFLOWS") |-> InvestvarBounds(k[1], k[2])])
          @@ ("total" :> [k \in PeriodKeys("INVESTFLOWS") |-> NonNegVar])
          @@ DecommissioningVars
          @@ ("invest_status" :>
                 [k \in PeriodKeys("NON_CONVEX_INVESTFLOWS") |-> BinaryVar])
    /\ pc' = "minimum_rule"
    /\ UNCHANGED <<cfg, blk, obj, sets, cons, err>>

invest(f, p) == Term(1, V("invest", f, p, NoIdx))
total(f, p) == Term(1, V("total", f, p, NoIdx))
old(f, p) == Term(1, V("old", f, p, NoIdx))
old_end(f, p) == Term(1, V("old_end", f, p, NoIdx))
old_exo(f, p) == Term(1, V("old_exo", f, p, NoIdx))
invest_status(f, p) == Term(1, V("invest_status", f, p, NoIdx))
flow(f, p, t) == Term(1, V("flow", f, p, t))

\* adds a built constraint component to the block
Build(name, body, next) ==
    /\ cons' = (name :> body) @@ cons
    /\ pc' = next
    /\ UNCHANGED <<cfg, blk, obj, sets, bvars, err>>

\* the lower big-M constraint without the status variable
MinInvestExprUngated(f, p) ==
    Le(Const(At(investment(f).minimum, p)), invest(f, p))

\* _min_invest_rule
MinInvestExpr(f, p) ==
    Le(Times(At(investment(f).minimum, p), invest_status(f, p)), invest(f, p))

InvMinimumRule ==
    /\ blk = "InvestmentFlowBlock"
    /\ pc = "minimum_rule"
    /\ Build("minimum_rule",
             [k \in PeriodKeys("NON_CONVEX_INVESTFLOWS") |-> MinInvestExpr(k[1], k[2])],
             "maximum_rule")

\* _max_invest_rule
MaxInvestExpr(f, p) ==
    Le(invest(f, p), Times(At(investment(f).maximum, p), invest_status(f, p)))

InvMaximumRule ==
    /\ blk = "InvestmentFlowBlock"
    /\ pc = "maximum_rule"
    /\ Build("maximum_rule",
             [k \in PeriodKeys("NON_CONVEX_INVESTFLOWS") |-> MaxInvestExpr(k[1], k[2])],
             "total_rule")

\* the total-capacity rule with the decommissioned capacity added back
TotalCapacityExprAddsOld(f, p) ==
    IF p = 0
    THEN Eq(total(f, p), Plus(invest(f, p), Const(investment(f).existing)))
    ELSE Eq(total(f, p), Plus(Plus(invest(f, p), total(f, p - 1)), old(f, p)))

\* _total_capacity_rule, one (flow, period)
TotalCapacityExpr(f, p) ==
    IF p = 0
    THEN Eq(total(f, p), Plus(invest(f, p), Const(investment(f).existing)))
    ELSE Eq(total(f, p), Minus(Plus(invest(f, p), total(f, p - 1)), old(f, p)))

InvTotalRule ==
    /\ blk = "InvestmentFlowBlock"
    /\ pc = "total_rule"
    /\ Build("total_rule",
             [k \in PeriodKeys("INVESTFLOWS") |-> TotalCapacityExpr(k[1], k[2])],
             IF cfg.multi_period THEN "old_rule_end" ELSE "fixed")

\* the commissioning-period scan without the step back to k - 1
CommPNoStepBack(lifetime, p) ==
    LET neg == {k \in PERIODS : periods_years(p) - lifetime - periods_years(k) < 0}
    IN IF neg = {} THEN 0 ELSE MinOf(neg)

\* the commissioning period: the period before the first one at which
\* periods_years[p] - lifetime - v turns negative (0 when there is none)
CommP(lifetime, p) ==
    LET neg == {k \in PERIODS : periods_years(p) - lifetime - periods_years(k) < 0}
    IN IF neg = {} THEN 0 ELSE MinOf(neg) - 1

\* _old_capacity_rule_end, one (flow, period) of a flow that has a lifetime
OldEndExpr(f, p) ==
    LET lifetime == Val(investment(f).lifetime)
    IN IF p = 0 THEN Eq(old_end(f, p), Const(0))
       ELSE IF lifetime <= periods_years(p)
       THEN Eq(old_end(f, p), invest(f, CommP(lifetime, p)))
       ELSE Eq(old_end(f, p), Const(0))

\* the lifetime check made only for a model of several periods
NoLifetimeSeveralPeriods ==
    IF Len(cfg.years) > 1
    THEN {k \in DOMAIN sets["INVESTFLOWS"] :
             investment(sets["INVESTFLOWS"][k]).lifetime = None}
    ELSE {}

\* positions in INVESTFLOWS of the flows without a lifetime
NoLifetime == {k \in DOMAIN sets["INVESTFLOWS"] :
                  investment(sets["INVESTFLOWS"][k]).lifetime = None}

\* the flows the loop of _old_capacity_rule_end passes before it raises
BeforeError == {sets["INVESTFLOWS"][k] : k \in 1..(MinOf(NoLifetime) - 1)}

\* _old_capacity_rule_end: the flows are visited in the order of INVESTFLOWS;
\* the first flow without a lifetime raises ValueError and ends formulation
InvOldRuleEnd ==
    /\ blk = "InvestmentFlowBlock"
    /\ pc = "old_rule_end"
    /\ IF NoLifetime = {}
       THEN /\ cons' = ("old_rule_end" :>
                           [k \in PeriodKeys("INVESTFLOWS") |-> OldEndExpr(k[1], k[2])])
                       @@ cons
            /\ pc' = "old_rule_exo"
            /\ err' = err
       ELSE /\ cons' = ("old_rule_end" :>
                           [k \in {<<f, p>> : f \in BeforeError, p \in PERIODS} |->
                               OldEndExpr(k[1], k[2])])
                       @@ cons
            /\ pc' = "raised"
            /\ err' = <<"ValueError", sets["INVESTFLOWS"][MinOf(NoLifetime)]>>
    /\ UNCHANGED <<cfg, blk, obj, sets, bvars>>

\* the exogenous branch taken in the first period too
ExoConditionFromStart(f, p) ==
    Val(investment(f).lifetime) - investment(f).age <= periods_years(p)

\* the branch of _old_capacity_rule_exo taken for period p
ExoCondition(f, p) ==
    /\ p # 0
    /\ Val(investment(f).lifetime) - investment(f).age <= periods_years(p)

RECURSIVE ExoLoop(_, _, _, _)
\* the loop over the periods of _old_capacity_rule_exo for one flow, from
\* period p on; is_decommissioned is the flag, acc the constraints added so far
ExoLoop(f, p, is_decommissioned, acc) ==
    IF p > LastPeriod THEN acc
    ELSE IF ExoCondition(f, p) /\ ~is_decommissioned
    THEN ExoLoop(f, p + 1, TRUE,
                 (<<f, p>> :> Eq(old_exo(f, p), Const(investment(f).existing))) @@ acc)
    ELSE ExoLoop(f, p + 1, is_decommissioned,
                 (<<f, p>> :> Eq(old_exo(f, p), Const(0))) @@ acc)

\* the constraints of _old_capacity_rule_exo for one flow
OldExoOf(f) == ExoLoop(f, 0, FALSE, << >>)

InvOldRuleExo ==
    /\ blk = "InvestmentFlowBlock"
    /\ pc = "old_rule_exo"
    /\ Build("old_rule_exo",
             [k \in PeriodKeys("INVESTFLOWS") |-> OldExoOf(k[1])[k]],
             "old_rule")

\* _old_capacity_rule, one (flow, period)
OldExpr(f, p) == Eq(old(f, p), Plus(old_end(f, p), old_exo(f, p)))

InvOldRule ==
    /\ blk = "InvestmentFlowBlock"
    /\ pc = "old_rule"
    /\ Build("old_rule",
             [k \in PeriodKeys("INVESTFLOWS") |-> OldExpr(k[1], k[2])],
             "fixed")

\* the fixed-flow constraint scaled by the total of the first period
FixedExprFirstPeriod(f, p, t) ==
    Eq(flow(f, p, t), Times(At(Val(flows(f).fix), t), total(f, 0)))

\* _investflow_fixed_rule, one (flow, period, timestep)
FixedExpr(f, p, t) ==
    Eq(flow(f, p, t), Times(At(Val(flows(f).fix), t), total(f, p)))

InvFixed ==
    /\ blk = "InvestmentFlowBlock"
    /\ pc = "fixed"
    /\ Build("fixed",
             [k \in TimeKeys("FIXED_INVESTFLOWS") |-> FixedExpr(k[1], k[2], k[3])],
             "max")

\* _max_investflow_rule, one (flow, period, timestep)
MaxExpr(f, p, t) ==
    Le(flow(f, p, t), Times(At(flows(f).max, t), total(f, p)))

InvMax ==
    /\ blk = "InvestmentFlowBlock"
    /\ pc = "max"
    /\ Build("max",
             [k \in TimeKeys("NON_FIXED_INVESTFLOWS") |-> MaxExpr(k[1], k[2], k[3])],
             "min")

\* _min_investflow_rule, one (flow, period, timestep)
MinExpr(f, p, t) ==
    Ge(flow(f, p, t), Times(At(flows(f).min, t), total(f, p)))

InvMin ==
    /\ blk = "InvestmentFlowBlock"
    /\ pc = "min"
    /\ Build("min",
             [k \in TimeKeys("MIN_INVESTFLOWS") |-> MinExpr(k[1], k[2], k[3])],
             "full_load_time_max")

\* sum(m.flow[i, o, p, t] * m.timeincrement[t] for p, t in m.TIMEINDEX)
FlowSum(f) ==
    LET ti == TIMEINDEX
    IN SumLin([k \in DOMAIN ti |->
                  Times(timeincrement(ti[k][2]), flow(f, ti[k][1], ti[k][2]))])

\* sum(self.total[i, o, p] for p in m.PERIODS)
TotalSum(f) == SumLin([k \in 1..Len(cfg.years) |-> total(f, k - 1)])

\* the upper aggregate bound taken from the capacity of the first period only
FullLoadTimeMaxExprFirstPeriod(f) ==
    Le(FlowSum(f), Times(Val(flows(f).full_load_time_max), total(f, 0)))

\* _full_load_time_max_investflow_rule
FullLoadTimeMaxExpr(f) ==
    Le(FlowSum(f), Times(Val(flows(f).full_load_time_max), TotalSum(f)))

InvFullLoadTimeMax ==
    /\ blk = "InvestmentFlowBlock"
    /\ pc = "full_load_time_max"
    /\ Build("full_load_time_max",
             [k \in {<<f>> : f \in Members("FULL_LOAD_TIME_MAX_INVESTFLOWS")} |->
                 FullLoadTimeMaxExpr(k[1])],
             "full_load_time_min")

\* _full_load_time_min_investflow_rule
FullLoadTimeMinExpr(f) ==
    Ge(FlowSum(f), Times(Val(flows(f).full_load_time_min), TotalSum(f)))

InvFullLoadTimeMin ==
    /\ blk = "InvestmentFlowBlock"
    /\ pc = "full_load_time_min"
    /\ Build("full_load_time_min",
             [k \in {<<f>> : f \in Members("FULL_LOAD_TIME_MIN_INVESTFLOWS")} |->
                 FullLoadTimeMinExpr(k[1])],
             IF cfg.multi_period THEN "overall_maximum" ELSE "done")

\* _overall_maximum_investflow_rule, one (flow, period)
OverallMaximumExpr(f, p) ==
    Le(total(f, p), Const(Val(investment(f).overall_maximum)))

InvOverallMaximum ==
    /\ blk = "InvestmentFlowBlock"
    /\ pc = "overall_maximum"
    /\ Build("overall_maximum",
             [k \in PeriodKeys("OVERALL_MAXIMUM_INVESTFLOWS") |->
                 OverallMaximumExpr(k[1], k[2])],
             "overall_minimum")

\* the overall minimum put on the first period
OverallMinimumExprFirst(f) ==
    Le(Const(Val(investment(f).overall_minimum)), total(f, 0))

\* _overall_minimum_investflow_rule: m.PERIODS[-1] is the last period
OverallMinimumExpr(f) ==
    Le(Const(Val(investment(f).overall_minimum)), total(f, LastPeriod))

InvOverallMinimum ==
    /\ blk = "InvestmentFlowBlock"
    /\ pc = "overall_minimum"
    /\ Build("overall_minimum",
             [k \in {<<f>> : f \in Members("OVERALL_MINIMUM_INVESTFLOWS")} |->
                 OverallMinimumExpr(k[1])],
             "done")

----------------------------------------------------------------------------
(* MultiPeriodInvestmentFlow (blocks.py): the investment block of the      *)
(* multi-period model, whose flows carry the investment options as         *)
(* "multiperiodinvestment" and the full load time limits as summed_max and *)
(* summed_min.                                                             *)

multiperiodinvestment(f) == cfg.flows[f]
summed_max(f) == cfg.flows[f].full_load_time_max
summed_min(f) == cfg.flows[f].full_load_time_min

MultiPeriodInvestSets ==
    [MULTIPERIODINVESTFLOWS |-> group,
     CONVEX_MULTIPERIODINVESTFLOWS |->
        SelectSeq(group, LAMBDA f : multiperiodinvestment(f).nonconvex = FALSE),
     NON_CONVEX_MULTIPERIODINVESTFLOWS |->
        SelectSeq(group, LAMBDA f : multiperiodinvestment(f).nonconvex = TRUE),
     FIXED_MULTIPERIODINVESTFLOWS |-> SelectSeq(group, LAMBDA f : flows(f).fix # None),
     NON_FIXED_MULTIPERIODINVESTFLOWS |-> SelectSeq(group, LAMBDA f : flows(f).fix = None),
     SUMMED_MAX_MULTIPERIODINVESTFLOWS |-> SelectSeq(group, LAMBDA f : summed_max(f) # None),
     SUMMED_MIN_MULTIPERIODINVESTFLOWS |-> SelectSeq(group, LAMBDA f : summed_min(f) # None),
     MIN_MULTIPERIODINVESTFLOWS |->
        SelectSeq(group, LAMBDA f : At(flows(f).min, 0) # 0 \/ flows(f).min.len > 1),
     OVERALL_MAXIMUM_MULTIPERIODINVESTFLOWS |->
        SelectSeq(group, LAMBDA f : multiperiodinvestment(f).overall_maximum # None),
     OVERALL_MINIMUM_MULTIPERIODINVESTFLOWS |->
        SelectSeq(group, LAMBDA f : multiperiodinvestment(f).overall_minimum # None)]

MPCreateSets ==
    /\ blk = "MultiPeriodInvestmentFlow"
    /\ pc = "create"
    /\ IF cfg.group = None
       THEN /\ pc' = "done"
            /\ UNCHANGED sets
       ELSE /\ sets' = MultiPeriodInvestSets
            /\ pc' = "variables"
    /\ UNCHANGED <<cfg, blk, obj, bvars, cons, err>>

\* _investvar_bound_rule
MPInvestvarBounds(f, p) ==
    IF f \in Members("CONVEX_MULTIPERIODINVESTFLOWS")
    THEN [lb |-> Some(At(multiperiodinvestment(f).minimum, p)),
          ub |-> Some(At(multiperiodinvestment(f).maximum, p)),
          within |-> "NonNegativeReals"]
    ELSE IF f \in Members("NON_CONVEX_MULTIPERIODINVESTFLOWS")
    THEN [lb |-> Some(0),
          ub |-> Some(At(multiperiodinvestment(f).maximum, p)),
          within |-> "NonNegativeReals"]
    ELSE NonNegVar

MPCreateVariables ==
    /\ blk = "MultiPeriodInvestmentFlow"
    /\ pc = "variables"
    /\ bvars' =
          ("invest" :> [k \in PeriodKeys("MULTIPERIODINVESTFLOWS") |->
                           MPInvestvarBounds(k[1], k[2])])
          @@ ("total" :> [k \in PeriodKeys("MULTIPERIODINVESTFLOWS") |-> NonNegVar])
          @@ ("old" :> [k \in PeriodKeys("MULTIPERIODINVESTFLOWS") |-> NonNegVar])
          @@ ("invest_status" :>
                 [k \in PeriodKeys("NON_CONVEX_MULTIPERIODINVESTFLOWS") |-> BinaryVar])
    /\ pc' = "minimum_rule"
    /\ UNCHANGED <<cfg, blk, obj, sets, cons, err>>

\* _min_invest_rule
MPMinInvestExpr(f, p) ==
    Le(Times(At(multiperiodinvestment(f).minimum, p), invest_status(f, p)),
       invest(f, p))

MPMinimumRule ==
    /\ blk = "MultiPeriodInvestmentFlow"
    /\ pc = "minimum_rule"
    /\ Build("minimum_rule",
             [k \in PeriodKeys("NON_CONVEX_MULTIPERIODINVESTFLOWS") |->
                 MPMinInvestExpr(k[1], k[2])],
             "maximum_rule")

\* _max_invest_rule
MPMaxInvestExpr(f, p) ==
    Le(invest(f, p),
       Times(At(multiperiodinvestment(f).maximum, p), invest_status(f, p)))

MPMaximumRule ==
    /\ blk = "MultiPeriodInvestmentFlow"
    /\ pc = "maximum_rule"
    /\ Build("maximum_rule",
             [k \in PeriodKeys("NON_CONVEX_MULTIPERIODINVESTFLOWS") |->
                 MPMaxInvestExpr(k[1], k[2])],
             "total_rule")

\* _total_capacity_rule, one (flow, period)
MPTotalCapacityExpr(f, p) ==
    IF p = 0
    THEN Eq(total(f, p),
            Plus(invest(f, p), Const(multiperiodinvestment(f).existing)))
    ELSE Eq(total(f, p), Minus(Plus(invest(f, p), total(f, p - 1)), old(f, p)))

MPTotalRule ==
    /\ blk = "MultiPeriodInvestmentFlow"
    /\ pc = "total_rule"
    /\ Build("total_rule",
             [k \in PeriodKeys("MULTIPERIODINVESTFLOWS") |->
                 MPTotalCapacityExpr(k[1], k[2])],
             "old_rule")

\* _old_capacity_rule, one (flow, period) of a flow that has a lifetime
MPOldExpr(f, p) ==
    LET lifetime == Val(multiperiodinvestment(f).lifetime)
        age == multiperiodinvestment(f).age
    IN IF lifetime <= p
       THEN Eq(old(f, p), invest(f, p - lifetime))
       ELSE IF lifetime - age = p
       THEN Eq(old(f, p),
               Plus(Const(multiperiodinvestment(f).existing), invest(f, 0)))
       ELSE Eq(old(f, p), Const(0))

\* positions in MULTIPERIODINVESTFLOWS of the flows without a lifetime
MPNoLifetime ==
    {k \in DOMAIN sets["MULTIPERIODINVESTFLOWS"] :
        multiperiodinvestment(sets["MULTIPERIODINVESTFLOWS"][k]).lifetime = None}

MPBeforeError ==
    {sets["MULTIPERIODINVESTFLOWS"][k] : k \in 1..(MinOf(MPNoLifetime) - 1)}

\* _old_capacity_rule: "lifetime <= p" with lifetime None is a TypeError, raised
\* in the first period of the first flow without a lifetime
MPOldRule ==
    /\ blk = "MultiPeriodInvestmentFlow"
    /\ pc = "old_rule"
    /\ IF MPNoLifetime = {}
       THEN /\ cons' = ("old_rule" :>
                           [k \in PeriodKeys("MULTIPERIODINVESTFLOWS") |->
                               MPOldExpr(k[1], k[2])])
                       @@ cons
            /\ pc' = "fixed"
            /\ err' = err
       ELSE /\ cons' = ("old_rule" :>
                           [k \in {<<f, p>> : f \in MPBeforeError, p \in PERIODS} |->
                               MPOldExpr(k[1], k[2])])
                       @@ cons
            /\ pc' = "raised"
            /\ err' = <<"TypeError", sets["MULTIPERIODINVESTFLOWS"][MinOf(MPNoLifetime)]>>
    /\ UNCHANGED <<cfg, blk, obj, sets, bvars>>

\* _investflow_fixed_rule, one (flow, period, timestep)
MPFixedExpr(f, p, t) ==
    Eq(flow(f, p, t), Times(At(Val(flows(f).fix), t), total(f, p)))

MPFixed ==
    /\ blk = "MultiPeriodInvestmentFlow"
    /\ pc = "fixed"
    /\ Build("fixed",
             [k \in TimeKeys("FIXED_MULTIPERIODINVESTFLOWS") |->
                 MPFixedExpr(k[1], k[2], k[3])],
             "max")

\* _max_investflow_rule, one (flow, period, timestep)
MPMaxExpr(f, p, t) ==
    Le(flow(f, p, t), Times(At(flows(f).max, t), total(f, p)))

MPMax ==
    /\ blk = "MultiPeriodInvestmentFlow"
    /\ pc = "max"
    /\ Build("max",
             [k \in TimeKeys("NON_FIXED_MULTIPERIODINVESTFLOWS") |->
                 MPMaxExpr(k[1], k[2], k[3])],
             "min")

\* _min_investflow_rule, one (flow, period, timestep)
MPMinExpr(f, p, t) ==
    Ge(flow(f, p, t), Times(At(flows(f).min, t), total(f, p)))

MPMin ==
    /\ blk = "MultiPeriodInvestmentFlow"
    /\ pc = "min"
    /\ Build("min",
             [k \in TimeKeys("MIN_MULTIPERIODINVESTFLOWS") |->
                 MPMinExpr(k[1], k[2], k[3])],
             "summed_max")

\* _summed_max_investflow_rule
SummedMaxExpr(f) == Le(FlowSum(f), Times(Val(summed_max(f)), TotalSum(f)))

MPSummedMax ==
    /\ blk = "MultiPeriodInvestmentFlow"
    /\ pc = "summed_max"
    /\ Build("summed_max",
             [k \in {<<f>> : f \in Members("SUMMED_MAX_MULTIPERIODINVESTFLOWS")} |->
                 SummedMaxExpr(k[1])],
             "summed_min")

\* _summed_min_investflow_rule
SummedMinExpr(f) == Ge(FlowSum(f), Times(Val(summed_min(f)), TotalSum(f)))

MPSummedMin ==
    /\ blk = "MultiPeriodInvestmentFlow"
    /\ pc = "summed_min"
    /\ Build("summed_min",
             [k \in {<<f>> : f \in Members("SUMMED_MIN_MULTIPERIODINVESTFLOWS")} |->
                 SummedMinExpr(k[1])],
             "overall_maximum")

\* _overall_maximum_investflow_rule, one (flow, period)
MPOverallMaximumExpr(f, p) ==
    Le(total(f, p), Const(Val(multiperiodinvestment(f).overall_maximum)))

MPOverallMaximum ==
    /\ blk = "MultiPeriodInvestmentFlow"
    /\ pc = "overall_maximum"
    /\ Build("overall_maximum",
             [k \in PeriodKeys("OVERALL_MAXIMUM_MULTIPERIODINVESTFLOWS") |->
                 MPOverallMaximumExpr(k[1], k[2])],
             "overall_minimum")

\* _overall_minimum_investflow_rule: m.PERIODS[-1] is the last period
MPOverallMinimumExpr(f) ==
    Le(Const(Val(multiperiodinvestment(f).overall_minimum)), total(f, LastPeriod))

MPOverallMinimum ==
    /\ blk = "MultiPeriodInvestmentFlow"
    /\ pc = "overall_minimum"
    /\ Build("overall_minimum",
             [k \in {<<f>> : f \in Members("OVERALL_MINIMUM_MULTIPERIODINVESTFLOWS")} |->
                 MPOverallMinimumExpr(k[1])],
             "done")

----------------------------------------------------------------------------
(* Formulation of an investment block.                                     *)

InitInvest ==
    /\ cfg \in InvestConfigs
    /\ blk \in {"InvestmentFlowBlock", "MultiPeriodInvestmentFlow"}
    \* the block of blocks.py belongs to the multi-period model and never
    \* reads periods_years
    /\ blk = "MultiPeriodInvestmentFlow" => cfg.multi_period /\ Uniform(cfg.years)
    /\ pc = "create"
    /\ sets = << >>
    /\ bvars = << >>
    /\ cons = << >>
    /\ err = None
    /\ obj = None

NextInvest ==
    \/ InvCreateSets
    \/ InvCreateVariables
    \/ InvMinimumRule
    \/ InvMaximumRule
    \/ InvTotalRule
    \/ InvOldRuleEnd
    \/ InvOldRuleExo
    \/ InvOldRule
    \/ InvFixed
    \/ InvMax
    \/ InvMin
    \/ InvFullLoadTimeMax
    \/ InvFullLoadTimeMin
    \/ InvOverallMaximum
    \/ InvOverallMinimum
    \/ MPCreateSets
    \/ MPCreateVariables
    \/ MPMinimumRule
    \/ MPMaximumRule
    \/ MPTotalRule
    \/ MPOldRule
    \/ MPFixed
    \/ MPMax
    \/ MPMin
    \/ MPSummedMax
    \/ MPSummedMin
    \/ MPOverallMaximum
    \/ MPOverallMinimum

SpecInvest == InitInvest /\ [][NextInvest]_vars

----------------------------------------------------------------------------
(* Balanced buses: Bus (blocks/bus.py), Bus and MultiPeriodBus (blocks.py). *)

\* orders in which a node lists its suppliers and its consumers
InputLists == {<< >>, <<1>>, <<1, 2>>}
OutputLists == {<< >>, <<11>>, <<11, 12>>}

\* the k-th node of a group
NodeId(k) == 20 + k

UniformModels == {x \in ModelConfigs : Uniform(x.years)}

\* the nodes of a group with several members: one without any flow, one
\* between a supplier and a consumer, one with two suppliers
CompanionLists == {<<(<< >>), (<< >>)>>, <<(<<1>>), (<<11>>)>>, <<(<<1, 2>>), (<<11>>)>>}

NodeLists ==
    {<<io>> : io \in InputLists \X OutputLists}
    \cup UNION {[1..n -> CompanionLists] : n \in 2..MaxGroup}

BusConfigs ==
    {[multi_period |-> mc.multi_period, years |-> mc.years,
      group |-> Some([k \in DOMAIN io |-> NodeId(k)]),
      inputs |-> [g \in {NodeId(k) : k \in DOMAIN io} |-> io[g - 20][1]],
      outputs |-> [g \in {NodeId(k) : k \in DOMAIN io} |-> io[g - 20][2]]] :
        mc \in UniformModels, io \in NodeLists}
    \cup
    {[multi_period |-> mc.multi_period, years |-> mc.years,
      group |-> None, inputs |-> << >>, outputs |-> << >>] : mc \in UniformModels}

ins(g) == cfg.inputs[g]
outs(g) == cfg.outputs[g]

\* m.flow[i, o, p, t] of the models with periods, m.flow[i, o, t] of the others
flow3(i, o, t) == Term(1, V("flow", <<i, o>>, NoIdx, t))
flow4(i, o, p, t) == Term(1, V("flow", <<i, o>>, p, t))

\* the balance skipped for every node without inflow
IsTrueNoInputs(g) == ins(g) = << >>

\* "expr is not True": the comparison of two empty sums is Python's 0 == 0
IsTrue(g) == ins(g) = << >> /\ outs(g) = << >>

\* _busbalance_rule of blocks/bus.py, one (node, period, timestep)
BusBalanceExpr(g, p, t) ==
    Eq(SumLin([k \in DOMAIN ins(g) |-> flow4(ins(g)[k], g, p, t)]),
       SumLin([k \in DOMAIN outs(g) |-> flow4(g, outs(g)[k], p, t)]))

BusBalance ==
    LET ti == TIMEINDEX
    IN [k \in {<<g, ti[j][1], ti[j][2]>> :
                  g \in {x \in Range(group) : ~IsTrue(x)}, j \in DOMAIN ti} |->
           BusBalanceExpr(k[1], k[2], k[3])]

\* Bus._create of blocks/bus.py
BusCreate ==
    /\ blk = "Bus"
    /\ pc = "create"
    /\ IF cfg.group = None
       THEN UNCHANGED cons
       ELSE cons' = ("balance" :> BusBalance) @@ cons
    /\ pc' = "done"
    /\ UNCHANGED <<cfg, blk, obj, sets, bvars, err>>

\* _busbalance_rule of Bus in blocks.py, one (node, timestep)
OldBusBalanceExpr(g, t) ==
    Eq(SumLin([k \in DOMAIN ins(g) |-> flow3(ins(g)[k], g, t)]),
       SumLin([k \in DOMAIN outs(g) |-> flow3(g, outs(g)[k], t)]))

OldBusBalance ==
    [k \in {<<g, t>> : g \in {x \in Range(group) : ~IsTrue(x)}, t \in TIMESTEPS} |->
        OldBusBalanceExpr(k[1], k[2])]

\* Bus._create of blocks.py
OldBusCreate ==
    /\ blk = "blocks.Bus"
    /\ pc = "create"
    /\ IF cfg.group = None
       THEN UNCHANGED cons
       ELSE cons' = ("balance" :> OldBusBalance) @@ cons
    /\ pc' = "done"
    /\ UNCHANGED <<cfg, blk, obj, sets, bvars, err>>

\* _busbalance_rule of MultiPeriodBus, one (node, period, timestep)
MPBusBalanceExpr(g, p, t) ==
    Eq(SumLin([k \in DOMAIN ins(g) |-> flow4(ins(g)[k], g, p, t)]),
       SumLin([k \in DOMAIN outs(g) |-> flow4(g, outs(g)[k], p, t)]))

MPBusBalance ==
    LET ti == TIMEINDEX
    IN [k \in {<<g, ti[j][1], ti[j][2]>> :
                  g \in {x \in Range(group) : ~IsTrue(x)}, j \in DOMAIN ti} |->
           MPBusBalanceExpr(k[1], k[2], k[3])]

\* MultiPeriodBus._create
MPBusCreate ==
    /\ blk = "MultiPeriodBus"
    /\ pc = "create"
    /\ IF cfg.group = None
       THEN UNCHANGED cons
       ELSE cons' = ("balance" :> MPBusBalance) @@ cons
    /\ pc' = "done"
    /\ UNCHANGED <<cfg, blk, obj, sets, bvars, err>>

InitBus ==
    /\ cfg \in BusConfigs
    /\ blk \in {"Bus", "blocks.Bus", "MultiPeriodBus"}
    \* the blocks of blocks.py: Bus for the standard model, MultiPeriodBus for
    \* the multi-period model
    /\ blk = "blocks.Bus" => ~cfg.multi_period
    /\ blk = "MultiPeriodBus" => cfg.multi_period
    /\ pc = "create"
    /\ sets = << >>
    /\ bvars = << >>
    /\ cons = << >>
    /\ err = None
    /\ obj = None

NextBus ==
    \/ BusCreate
    \/ OldBusCreate
    \/ MPBusCreate

SpecBus == InitBus /\ [][NextBus]_vars

----------------------------------------------------------------------------
(* Converters: Transformer and MultiPeriodTransformer (blocks.py).         *)

\* the conversion factor series given for node b
Factor(b) == Listed((b % 10) + 1, 1)

\* a converter: its input and output lists and its conversion_factors dict,
\* which holds a factor for every incident node except those left out
Converters ==
    UNION {
        {[inputs |-> il, outputs |-> ol,
          conversion_factors |-> [b \in (Range(il) \cup Range(ol)) \ miss |-> Factor(b)]] :
            miss \in {{}} \cup {{b} : b \in Range(il) \cup Range(ol)}} :
        il \in InputLists, ol \in OutputLists}

\* the converters of a group with several members
CompanionConverters ==
    {cv \in Converters :
        /\ cv.outputs = <<11>>
        /\ \/ cv.inputs = <<1>> /\ 1 \in DOMAIN cv.conversion_factors
           \/ cv.inputs = <<1, 2>> /\ DOMAIN cv.conversion_factors = {1, 11}}

ConverterGroups ==
    {<<cv>> : cv \in Converters}
    \cup UNION {[1..n -> CompanionConverters] : n \in 2..MaxGroup}

TransformerConfigs ==
    {[multi_period |-> mc.multi_period, years |-> mc.years,
      group |-> Some([k \in DOMAIN cv |-> NodeId(k)]),
      inputs |-> [g \in {NodeId(k) : k \in DOMAIN cv} |-> cv[g - 20].inputs],
      outputs |-> [g \in {NodeId(k) : k \in DOMAIN cv} |-> cv[g - 20].outputs],
      conversion_factors |->
          [g \in {NodeId(k) : k \in DOMAIN cv} |-> cv[g - 20].conversion_factors]] :
        mc \in UniformModels, cv \in ConverterGroups}
    \cup
    {[multi_period |-> mc.multi_period, years |-> mc.years,
      group |-> None, inputs |-> << >>, outputs |-> << >>,
      conversion_factors |-> << >>] : mc \in UniformModels}

conversion_factors(n) == cfg.conversion_factors[n]

\* the (n, o, i) combinations, as positions in group, out_flows[n], in_flows[n]
Combos ==
    UNION {{<<a, b, c>> : b \in DOMAIN outs(group[a]), c \in DOMAIN ins(group[a])} :
              a \in DOMAIN group}

ComboN(x) == group[x[1]]
ComboO(x) == outs(group[x[1]])[x[2]]
ComboI(x) == ins(group[x[1]])[x[3]]

\* the order in which the nested loops visit the combinations
LoopBefore(x, y) ==
    \/ x[1] < y[1]
    \/ x[1] = y[1] /\ x[2] < y[2]
    \/ x[1] = y[1] /\ x[2] = y[2] /\ x[3] < y[3]

\* the combinations at which n.conversion_factors[...] has no entry
Missing ==
    {x \in Combos : \/ ComboO(x) \notin DOMAIN conversion_factors(ComboN(x))
                    \/ ComboI(x) \notin DOMAIN conversion_factors(ComboN(x))}

FirstMissing == CHOOSE x \in Missing : \A y \in Missing \ {x} : LoopBefore(x, y)

\* the dictionary lookup that fails: the output's factor is read first
MissingKey(x) ==
    IF ComboO(x) \notin DOMAIN conversion_factors(ComboN(x))
    THEN ComboO(x) ELSE ComboI(x)

\* the relation with each flow scaled by its own factor
RelationExprOwnFactor(n, i, o, t) ==
    Eq(Times(At(conversion_factors(n)[i], t), flow3(i, n, t)),
       Times(At(conversion_factors(n)[o], t), flow3(n, o, t)))

\* _input_output_relation of Transformer, one (n, i, o, t)
RelationExpr(n, i, o, t) ==
    Eq(Times(At(conversion_factors(n)[o], t), flow3(i, n, t)),
       Times(At(conversion_factors(n)[i], t), flow3(n, o, t)))

\* the loops run over the nodes first and over the timesteps last
VisitedNodeFirst(t) ==
    IF Missing = {} THEN Combos
    ELSE {x \in Combos : LoopBefore(x, FirstMissing)}

\* the combinations visited without an exception at timestep t
Visited(t) ==
    IF Missing = {} THEN Combos
    ELSE IF t = 0 THEN {x \in Combos : LoopBefore(x, FirstMissing)}
    ELSE {}

\* Transformer._create: the loops run over the timesteps first; the first
\* lookup of a missing factor raises KeyError, which "except ValueError"
\* does not catch
TransformerCreate ==
    /\ blk = "Transformer"
    /\ pc = "create"
    /\ IF cfg.group = None
       THEN /\ pc' = "done"
            /\ UNCHANGED <<cons, err>>
       ELSE /\ cons' = ("relation" :>
                   [k \in UNION {{<<ComboN(x), ComboI(x), ComboO(x), t>> : x \in Visited(t)} :
                                    t \in TIMESTEPS} |->
                       RelationExpr(k[1], k[2], k[3], k[4])]) @@ cons
            /\ IF Missing = {}
               THEN pc' = "done" /\ err' = err
               ELSE pc' = "raised" /\ err' = <<"KeyError", MissingKey(FirstMissing)>>
    /\ UNCHANGED <<cfg, blk, obj, sets, bvars>>

\* _input_output_relation of MultiPeriodTransformer, one (n, i, o, p, t)
MPRelationExpr(n, i, o, p, t) ==
    Eq(Times(At(conversion_factors(n)[o], t), flow4(i, n, p, t)),
       Times(At(conversion_factors(n)[i], t), flow4(n, o, p, t)))

\* MultiPeriodTransformer._create
MPTransformerCreate ==
    /\ blk = "MultiPeriodTransformer"
    /\ pc = "create"
    /\ IF cfg.group = None
       THEN /\ pc' = "done"
            /\ UNCHANGED <<cons, err>>
       ELSE /\ LET ti == TIMEINDEX
               IN cons' = ("relation" :>
                   [k \in UNION {{<<ComboN(x), ComboI(x), ComboO(x), ti[j][1], ti[j][2]>> :
                                     x \in Visited(ti[j][2])} : j \in DOMAIN ti} |->
                       MPRelationExpr(k[1], k[2], k[3], k[4], k[5])]) @@ cons
            /\ IF Missing = {}
               THEN pc' = "done" /\ err' = err
               ELSE pc' = "raised" /\ err' = <<"KeyError", MissingKey(FirstMissing)>>
    /\ UNCHANGED <<cfg, blk, obj, sets, bvars>>

InitTransformer ==
    /\ cfg \in TransformerConfigs
    /\ blk \in {"Transformer", "MultiPeriodTransformer"}
    /\ blk = "Transformer" => ~cfg.multi_period
    /\ blk = "MultiPeriodTransformer" => cfg.multi_period
    /\ pc = "create"
    /\ sets = << >>
    /\ bvars = << >>
    /\ cons = << >>
    /\ err = None
    /\ obj = None

NextTransformer ==
    \/ TransformerCreate
    \/ MPTransformerCreate

SpecTransformer == InitTransformer /\ [][NextTransformer]_vars

----------------------------------------------------------------------------
(* NonConvexFlow (blocks.py): the unit-commitment block of the standard    *)
(* model.  Its components are indexed by m.TIMESTEPS.                      *)

\* the attributes of a flow with a nonconvex option that the block reads
DefaultNonConvex ==
    [min |-> Some(Scalar(0)), max |-> Scalar(1), nominal_value |-> 1,
     startup_costs |-> None, maximum_startups |-> None,
     shutdown_costs |-> None, maximum_shutdowns |-> None,
     minimum_uptime |-> None, minimum_downtime |-> None, max_up_down |-> 0,
     activity_costs |-> None, initial_status |-> 0]

\* flows that differ in their bounds
LimitedAttrs ==
    {[DefaultNonConvex EXCEPT !.min = mn, !.max = mx, !.nominal_value = nv] :
        mn \in {None, Some(Scalar(0)), Some(Scalar(1)), Some(Listed(0, 1))},
        mx \in {Scalar(1), Listed(1, 1)}, nv \in {1, 2}}

\* flows that differ in the tracking of their startups and shutdowns
TrackedAttrs ==
    {[DefaultNonConvex EXCEPT !.startup_costs = su[1], !.maximum_startups = su[2],
                              !.shutdown_costs = sd[1], !.maximum_shutdowns = sd[2],
                              !.initial_status = st] :
        su \in {<<None, None>>, <<Some(1), None>>, <<None, Some(1)>>, <<Some(1), Some(2)>>},
        sd \in {<<None, None>>, <<Some(1), None>>, <<None, Some(1)>>},
        st \in {0, 1}}

MinTimes == {None} \cup {Some(n) : n \in 1..MaxUpDown}

\* the larger of the two minimum times, 0 when there is none
LargerOf(u, d) ==
    IF u = None /\ d = None THEN 0
    ELSE IF d = None THEN Val(u)
    ELSE IF u = None THEN Val(d)
    ELSE IF Val(u) >= Val(d) THEN Val(u) ELSE Val(d)

\* flows that differ in their minimum uptime and downtime
TimedAttrs ==
    {[DefaultNonConvex EXCEPT !.minimum_uptime = u, !.minimum_downtime = d,
                              !.max_up_down = LargerOf(u, d), !.initial_status = st] :
        u \in MinTimes, d \in MinTimes, st \in {0, 1}}

\* the flows of a group with several members
CompanionNonConvex ==
    {[DefaultNonConvex EXCEPT !.min = None],
     [DefaultNonConvex EXCEPT !.maximum_startups = Some(1), !.activity_costs = Some(1)],
     [DefaultNonConvex EXCEPT !.minimum_uptime = Some(1), !.max_up_down = 1]}

NonConvexGroups ==
    {<<a>> : a \in LimitedAttrs \cup TrackedAttrs \cup TimedAttrs}
    \cup UNION {[1..n -> CompanionNonConvex] : n \in 2..MaxGroup}

\* a standard model with its timesteps and the group handed to the block
NonConvexConfigs ==
    {[multi_period |-> FALSE, years |-> <<0>>, horizon |-> h,
      group |-> Some([k \in DOMAIN as |-> FlowId(k)]),
      flows |-> [f \in {FlowId(k) : k \in DOMAIN as} |-> as[f[1]]]] :
        h \in 1..MaxHorizon, as \in NonConvexGroups}
    \cup
    {[multi_period |-> FALSE, years |-> <<0>>, horizon |-> h,
      group |-> None, flows |-> << >>] : h \in 1..MaxHorizon}

\* m.TIMESTEPS of the standard model; as a Pyomo ordered Set it is indexed
\* from 1, so m.TIMESTEPS[1] is its first and m.TIMESTEPS[-1] its last member
HorizonSteps == 0..(cfg.horizon - 1)
FirstStep == 0
LastStep == cfg.horizon - 1

nonconvex(f) == cfg.flows[f]

\* the keys of a component indexed by (flow, timestep)
StepKeys(name) == {<<f, t>> : f \in Members(name), t \in HorizonSteps}
\* the keys of a component indexed by flow
FlowOnlyKeys(name) == {<<f>> : f \in Members(name)}

NonConvexSets ==
    [NONCONVEX_FLOWS |-> group,
     MIN_FLOWS |-> SelectSeq(group, LAMBDA f : flows(f).min # None),
     STARTUPFLOWS |->
        SelectSeq(group, LAMBDA f : \/ nonconvex(f).startup_costs # None
                                    \/ nonconvex(f).maximum_startups # None),
     MAXSTARTUPFLOWS |->
        SelectSeq(group, LAMBDA f : nonconvex(f).maximum_startups # None),
     SHUTDOWNFLOWS |->
        SelectSeq(group, LAMBDA f : \/ nonconvex(f).shutdown_costs # None
                                    \/ nonconvex(f).maximum_shutdowns # None),
     MAXSHUTDOWNFLOWS |->
        SelectSeq(group, LAMBDA f : nonconvex(f).maximum_shutdowns # None),
     MINUPTIMEFLOWS |->
        SelectSeq(group, LAMBDA f : nonconvex(f).minimum_uptime # None),
     MINDOWNTIMEFLOWS |->
        SelectSeq(group, LAMBDA f : nonconvex(f).minimum_downtime # None),
     ACTIVITYCOSTFLOWS |->
        SelectSeq(group, LAMBDA f : nonconvex(f).activity_costs # None)]

\* NonConvexFlow._create: a block that gets no group creates nothing
NCCreateSets ==
    /\ blk = "NonConvexFlow"
    /\ pc = "create"
    /\ IF cfg.group = None
       THEN /\ pc' = "done"
            /\ UNCHANGED sets
       ELSE /\ sets' = NonConvexSets
            /\ pc' = "variables"
    /\ UNCHANGED <<cfg, blk, obj, bvars, cons, err>>

\* startup and shutdown are created only when their Set has members
TrackingVars(name, over) ==
    IF sets[over] # << >>
    THEN (name :> [k \in StepKeys(over) |-> BinaryVar])
    ELSE << >>

NCCreateVariables ==
    /\ blk = "NonConvexFlow"
    /\ pc = "variables"
    /\ bvars' = ("status" :> [k \in StepKeys("NONCONVEX_FLOWS") |-> BinaryVar])
                @@ TrackingVars("startup", "STARTUPFLOWS")
                @@ TrackingVars("shutdown", "SHUTDOWNFLOWS")
    /\ pc' = "min"
    /\ UNCHANGED <<cfg, blk, obj, sets, cons, err>>

status(f, t) == Term(1, V("status", f, NoIdx, t))
startup(f, t) == Term(1, V("startup", f, NoIdx, t))
shutdown(f, t) == Term(1, V("shutdown", f, NoIdx, t))
\* m.flow[i, o, t]
flow_t(f, t) == Term(1, V("flow", f, NoIdx, t))

\* _minimum_flow_rule
MinimumFlowExpr(f, t) ==
    Le(Times(At(Val(flows(f).min), t) * flows(f).nominal_value, status(f, t)),
       flow_t(f, t))

NCMin ==
    /\ blk = "NonConvexFlow"
    /\ pc = "min"
    /\ Build("min", [k \in StepKeys("MIN_FLOWS") |-> MinimumFlowExpr(k[1], k[2])], "max")

\* _maximum_flow_rule
MaximumFlowExpr(f, t) ==
    Ge(Times(At(flows(f).max, t) * flows(f).nominal_value, status(f, t)),
       flow_t(f, t))

\* the maximum constraints are indexed by MIN_FLOWS as well
NCMax ==
    /\ blk = "NonConvexFlow"
    /\ pc = "max"
    /\ Build("max", [k \in StepKeys("MIN_FLOWS") |-> MaximumFlowExpr(k[1], k[2])],
             "startup_constr")

\* the startup rule reading the initial status at the second timestep too
StartupExprFromSecond(f, t) ==
    IF t > FirstStep + 1
    THEN Ge(startup(f, t), Minus(status(f, t), status(f, t - 1)))
    ELSE Ge(startup(f, t), Minus(status(f, t), Const(nonconvex(f).initial_status)))

\* _startup_rule
StartupExpr(f, t) ==
    IF t > FirstStep
    THEN Ge(startup(f, t), Minus(status(f, t), status(f, t - 1)))
    ELSE Ge(startup(f, t), Minus(status(f, t), Const(nonconvex(f).initial_status)))

NCStartup ==
    /\ blk = "NonConvexFlow"
    /\ pc = "startup_constr"
    /\ Build("startup_constr",
             [k \in StepKeys("STARTUPFLOWS") |-> StartupExpr(k[1], k[2])],
             "max_startup_constr")

\* the cap put on the startups of all timesteps but the first
MaxStartupExprSkipsFirst(f) ==
    Le(SumLin([k \in 1..(cfg.horizon - 1) |-> startup(f, k)]),
       Const(Val(nonconvex(f).maximum_startups)))

\* _max_startup_rule
MaxStartupExpr(f) ==
    Le(SumLin([k \in 1..cfg.horizon |-> startup(f, k - 1)]),
       Const(Val(nonconvex(f).maximum_startups)))

NCMaxStartup ==
    /\ blk = "NonConvexFlow"
    /\ pc = "max_startup_constr"
    /\ Build("max_startup_constr",
             [k \in FlowOnlyKeys("MAXSTARTUPFLOWS") |-> MaxStartupExpr(k[1])],
             "shutdown_constr")

\* the shutdown rule bounding shutdown by the rise of the status
ShutdownExprOfRise(f, t) ==
    IF t > FirstStep
    THEN Ge(shutdown(f, t), Minus(status(f, t), status(f, t - 1)))
    ELSE Ge(shutdown(f, t), Minus(status(f, t), Const(nonconvex(f).initial_status)))

\* _shutdown_rule
ShutdownExpr(f, t) ==
    IF t > FirstStep
    THEN Ge(shutdown(f, t), Minus(status(f, t - 1), status(f, t)))
    ELSE Ge(shutdown(f, t), Minus(Const(nonconvex(f).initial_status), status(f, t)))

NCShutdown ==
    /\ blk = "NonConvexFlow"
    /\ pc = "shutdown_constr"
    /\ Build("shutdown_constr",
             [k \in StepKeys("SHUTDOWNFLOWS") |-> ShutdownExpr(k[1], k[2])],
             "max_shutdown_constr")

\* _max_shutdown_rule
MaxShutdownExpr(f) ==
    Le(SumLin([k \in 1..cfg.horizon |-> shutdown(f, k - 1)]),
       Const(Val(nonconvex(f).maximum_shutdowns)))

NCMaxShutdown ==
    /\ blk = "NonConvexFlow"
    /\ pc = "max_shutdown_constr"
    /\ Build("max_shutdown_constr",
             [k \in FlowOnlyKeys("MAXSHUTDOWNFLOWS") |-> MaxShutdownExpr(k[1])],
             "min_uptime_constr")

\* the window with its two endpoints left out
InWindowStrict(f, t) ==
    /\ nonconvex(f).max_up_down < t
    /\ t < LastStep - nonconvex(f).max_up_down

\* max_up_down <= t <= m.TIMESTEPS[-1] - max_up_down
InWindow(f, t) ==
    /\ nonconvex(f).max_up_down <= t
    /\ t <= LastStep - nonconvex(f).max_up_down

\* the else branch of both minimum time rules
PinnedExpr(f, t) ==
    Eq(Plus(Plus(Const(0), status(f, t)), Const(0 - nonconvex(f).initial_status)),
       Const(0))

\* the uptime rule without the factor minimum_uptime
MinUptimeExprUnscaled(f, t) ==
    LET U == Val(nonconvex(f).minimum_uptime)
    IN IF InWindow(f, t)
       THEN Le(Plus(Plus(Const(0), Minus(status(f, t), status(f, t - 1))),
                    Neg(SumLin([u \in 1..U |-> status(f, t + u - 1)]))),
               Const(0))
       ELSE PinnedExpr(f, t)

\* _min_uptime_rule
MinUptimeExpr(f, t) ==
    LET U == Val(nonconvex(f).minimum_uptime)
    IN IF InWindow(f, t)
       THEN Le(Plus(Plus(Const(0), Times(U, Minus(status(f, t), status(f, t - 1)))),
                    Neg(SumLin([u \in 1..U |-> status(f, t + u - 1)]))),
               Const(0))
       ELSE PinnedExpr(f, t)

NCMinUptime ==
    /\ blk = "NonConvexFlow"
    /\ pc = "min_uptime_constr"
    /\ Build("min_uptime_constr",
             [k \in StepKeys("MINUPTIMEFLOWS") |-> MinUptimeExpr(k[1], k[2])],
             "min_downtime_constr")

\* the downtime rule without the factor minimum_downtime
MinDowntimeExprUnscaled(f, t) ==
    LET D == Val(nonconvex(f).minimum_downtime)
    IN IF InWindow(f, t)
       THEN Le(Plus(Plus(Plus(Const(0), Minus(status(f, t - 1), status(f, t))),
                         Const(0 - D)),
                    SumLin([d \in 1..D |-> status(f, t + d - 1)])),
               Const(0))
       ELSE PinnedExpr(f, t)

\* _min_downtime_rule
MinDowntimeExpr(f, t) ==
    LET D == Val(nonconvex(f).minimum_downtime)
    IN IF InWindow(f, t)
       THEN Le(Plus(Plus(Plus(Const(0),
                              Times(D, Minus(status(f, t - 1), status(f, t)))),
                         Const(0 - D)),
                    SumLin([d \in 1..D |-> status(f, t + d - 1)])),
               Const(0))
       ELSE PinnedExpr(f, t)

NCMinDowntime ==
    /\ blk = "NonConvexFlow"
    /\ pc = "min_downtime_constr"
    /\ Build("min_downtime_constr",
             [k \in StepKeys("MINDOWNTIMEFLOWS") |-> MinDowntimeExpr(k[1], k[2])],
             "done")

InitNonConvex ==
    /\ cfg \in NonConvexConfigs
    /\ blk = "NonConvexFlow"
    /\ pc = "create"
    /\ sets = << >>
    /\ bvars = << >>
    /\ cons = << >>
    /\ err = None
    /\ obj = None

NextNonConvex ==
    \/ NCCreateSets
    \/ NCCreateVariables
    \/ NCMin
    \/ NCMax
    \/ NCStartup
    \/ NCMaxStartup
    \/ NCShutdown
    \/ NCMaxShutdown
    \/ NCMinUptime
    \/ NCMinDowntime

SpecNonConvex == InitNonConvex /\ [][NextNonConvex]_vars

----------------------------------------------------------------------------
(* Flow and MultiPeriodFlow (blocks.py): the blocks of the flows with a    *)
(* fixed nominal value.  cfg.flows holds every flow of the model (m.flows, *)
(* m.FLOWS), cfg.group the flows handed to the block.                      *)

NoGradient == [ub |-> None, costs |-> 0]

\* the attributes of a flow that the two blocks read
DefaultFlow ==
    [nominal_value |-> Some(2), summed_max |-> None, summed_min |-> None,
     positive_gradient |-> NoGradient, negative_gradient |-> NoGradient,
     integer |-> FALSE, variable_costs |-> None]

Gradients == {NoGradient, [ub |-> Some(Scalar(1)), costs |-> 1],
              [ub |-> Some(Listed(1, 1)), costs |-> 0]}

\* flows that differ in their ramp limits, which need a nominal value
RampAttrs ==
    {[DefaultFlow EXCEPT !.positive_gradient = pg, !.negative_gradient = ng,
                         !.nominal_value = Some(nv)] :
        pg \in Gradients, ng \in Gradients, nv \in {1, 2}}

\* flows that differ in their aggregate limits, integrality and costs
PlainAttrs ==
    {[DefaultFlow EXCEPT !.nominal_value = nv, !.summed_max = smax,
                         !.summed_min = smin, !.integer = int,
                         !.variable_costs = vc] :
        nv \in {None, Some(2)}, smax \in {None, Some(3)}, smin \in {None, Some(1)},
        int \in BOOLEAN, vc \in {None, Some(Scalar(2))}}

\* the flows of a group with several members
CompanionFlows ==
    {DefaultFlow,
     [DefaultFlow EXCEPT !.positive_gradient = [ub |-> Some(Scalar(1)), costs |-> 1],
                         !.integer = TRUE],
     [DefaultFlow EXCEPT !.negative_gradient = [ub |-> Some(Scalar(1)), costs |-> 1],
                         !.variable_costs = Some(Scalar(1))]}

FlowGroups ==
    {<<a>> : a \in RampAttrs \cup PlainAttrs}
    \cup UNION {[1..n -> CompanionFlows] : n \in 2..MaxGroup}

\* flows of another shape, which are in m.flows but not in the group
OtherFlows ==
    {[DefaultFlow EXCEPT !.nominal_value = None, !.variable_costs = vc,
                         !.positive_gradient = pg] :
        vc \in {None, Some(Scalar(2))},
        pg \in {NoGradient, [ub |-> Some(Scalar(1)), costs |-> 1]}}

\* the networks of a model: every flow in the group, or no flow of the
\* block's shape and so no group
FlowNetworks ==
    {[group |-> Some([k \in DOMAIN as |-> FlowId(k)]),
      flows |-> [f \in {FlowId(k) : k \in DOMAIN as} |-> as[f[1]]]] :
        as \in FlowGroups}
    \cup {[group |-> None, flows |-> << >>]}
    \cup {[group |-> None, flows |-> (FlowId(1) :> a)] : a \in OtherFlows}

FlowConfigs ==
    {[multi_period |-> mc.multi_period, years |-> mc.years,
      group |-> nw.group, flows |-> nw.flows] :
        mc \in {x \in ModelConfigs : Uniform(x.years)}, nw \in FlowNetworks}

\* the keys of a component indexed by (flow, timestep of m.TIMESTEPS)
TKeys(name) == {<<f, t>> : f \in Members(name), t \in TIMESTEPS}

\* the Sets of Flow._create and of MultiPeriodFlow._create
PlainSets ==
    [SUMMED_MAX_FLOWS |->
        SelectSeq(group, LAMBDA f : flows(f).summed_max # None
                                    /\ flows(f).nominal_value # None),
     SUMMED_MIN_FLOWS |->
        SelectSeq(group, LAMBDA f : flows(f).summed_min # None
                                    /\ flows(f).nominal_value # None),
     NEGATIVE_GRADIENT_FLOWS |->
        SelectSeq(group, LAMBDA f : flows(f).negative_gradient.ub # None),
     POSITIVE_GRADIENT_FLOWS |->
        SelectSeq(group, LAMBDA f : flows(f).positive_gradient.ub # None),
     INTEGER_FLOWS |-> SelectSeq(group, LAMBDA f : flows(f).integer)]

\* the block class of the plain flows of a model
PlainBlock == IF cfg.multi_period THEN "MultiPeriodFlow" ELSE "Flow"
Plain == blk \in {"Flow", "MultiPeriodFlow"}

\* _create: a block that gets no group creates nothing
FlowCreateSets ==
    /\ Plain
    /\ pc = "create"
    /\ IF cfg.group = None
       THEN /\ pc' = "done"
            /\ UNCHANGED sets
       ELSE /\ sets' = PlainSets
            /\ pc' = "variables"
    /\ UNCHANGED <<cfg, blk, obj, bvars, cons, err>>

\* a gradient variable after setub
GradientVar(g, f, t) ==
    [lb |-> None, ub |-> Some(At(Val(g.ub), t) * Val(flows(f).nominal_value)),
     within |-> "Reals"]

IntegerVar == [lb |-> None, ub |-> None, within |-> "NonNegativeIntegers"]

\* the three Vars and the upper bounds set on the gradient variables;
\* integer_flow is indexed by m.TIMESTEPS in Flow, by m.TIMEINDEX in
\* MultiPeriodFlow
FlowCreateVariables ==
    /\ Plain
    /\ pc = "variables"
    /\ bvars' =
          ("positive_gradient" :>
              [k \in TKeys("POSITIVE_GRADIENT_FLOWS") |->
                  GradientVar(flows(k[1]).positive_gradient, k[1], k[2])])
          @@ ("negative_gradient" :>
              [k \in TKeys("NEGATIVE_GRADIENT_FLOWS") |->
                  GradientVar(flows(k[1]).negative_gradient, k[1], k[2])])
          @@ ("integer_flow" :>
              [k \in (IF blk = "Flow" THEN TKeys("INTEGER_FLOWS")
                      ELSE TimeKeys("INTEGER_FLOWS")) |-> IntegerVar])
    /\ pc' = "summed_max"
    /\ UNCHANGED <<cfg, blk, obj, sets, cons, err>>

\* m.flow[i, o, t] of a standard model, m.flow[i, o, p, t] of a multi-period one
PlainFlow(f, p, t) ==
    IF blk = "Flow" THEN Term(1, V("flow", f, NoIdx, t)) ELSE flow(f, p, t)

\* sum(m.flow[...] * m.timeincrement[ts] ...) over TIMESTEPS or TIMEINDEX
PlainFlowSum(f) ==
    LET ti == TIMEINDEX
    IN SumLin([k \in DOMAIN ti |->
                  Times(timeincrement(ti[k][2]), PlainFlow(f, ti[k][1], ti[k][2]))])

\* _flow_summed_max_rule
FlowSummedMax ==
    /\ Plain
    /\ pc = "summed_max"
    /\ Build("summed_max",
             [k \in {<<f>> : f \in Members("SUMMED_MAX_FLOWS")} |->
                 Le(PlainFlowSum(k[1]),
                    Const(Val(flows(k[1]).summed_max)
                          * Val(flows(k[1]).nominal_value)))],
             "summed_min")

\* _flow_summed_min_rule
FlowSummedMin ==
    /\ Plain
    /\ pc = "summed_min"
    /\ Build("summed_min",
             [k \in {<<f>> : f \in Members("SUMMED_MIN_FLOWS")} |->
                 Ge(PlainFlowSum(k[1]),
                    Const(Val(flows(k[1]).summed_min)
                          * Val(flows(k[1]).nominal_value)))],
             "positive_gradient_constr")

positive_gradient(f, t) == Term(1, V("positive_gradient", f, NoIdx, t))
negative_gradient(f, t) == Term(1, V("negative_gradient", f, NoIdx, t))

\* the timesteps for which a ramp constraint is added: "if ts > 0"
RampSteps == {t \in TIMESTEPS : t > 0}

\* _positive_gradient_flow_rule of Flow
PositiveGradientExpr(f, t) ==
    Le(Minus(PlainFlow(f, NoIdx, t), PlainFlow(f, NoIdx, t - 1)),
       positive_gradient(f, t))

\* _negative_gradient_flow_rule of Flow
NegativeGradientExpr(f, t) ==
    Le(Minus(PlainFlow(f, NoIdx, t - 1), PlainFlow(f, NoIdx, t)),
       negative_gradient(f, t))

FlowPositiveGradient ==
    /\ blk = "Flow"
    /\ pc = "positive_gradient_constr"
    /\ Build("positive_gradient_constr",
             [k \in {<<f, t>> : f \in Members("POSITIVE_GRADIENT_FLOWS"),
                                t \in RampSteps} |->
                 PositiveGradientExpr(k[1], k[2])],
             "negative_gradient_constr")

FlowNegativeGradient ==
    /\ blk = "Flow"
    /\ pc = "negative_gradient_constr"
    /\ Build("negative_gradient_constr",
             [k \in {<<f, t>> : f \in Members("NEGATIVE_GRADIENT_FLOWS"),
                                t \in RampSteps} |->
                 NegativeGradientExpr(k[1], k[2])],
             "integer_flow_constr")

\* the period of a timestep in m.TIMEINDEX
PeriodOf(t) == t \div StepsPerPeriod

\* the (period, timestep) pairs of m.TIMEINDEX
TimePairs == {<<PeriodOf(t), t>> : t \in TIMESTEPS}

\* the timesteps ts > 0 for which m.flow[inp, out, p, ts - 1] is no valid
\* index: ts - 1 lies in the period before p
Unpaired == {t \in RampSteps : <<PeriodOf(t), t - 1>> \notin TimePairs}

\* the ramp constraints of the multi-period block added for flow f up to,
\* and without, timestep `upto`
MPRampsOf(f, upto, name) ==
    [k \in {<<f, PeriodOf(t), t>> : t \in {x \in RampSteps : x < upto}} |->
        IF name = "positive_gradient"
        THEN Le(Minus(flow(f, k[2], k[3]), flow(f, k[2], k[3] - 1)),
                positive_gradient(f, k[3]))
        ELSE Le(Minus(flow(f, k[2], k[3] - 1), flow(f, k[2], k[3])),
                negative_gradient(f, k[3]))]

\* _positive_gradient_flow_rule / _negative_gradient_flow_rule of
\* MultiPeriodFlow: the loop over the flows and m.TIMEINDEX, which ends with
\* a KeyError at the first timestep whose predecessor is in another period
MPRampRule(name, over, next) ==
    IF sets[over] = << >> \/ Unpaired = {}
    THEN /\ Build(name \o "_constr",
                  [k \in {<<f, PeriodOf(t), t>> : f \in Members(over),
                                                   t \in RampSteps} |->
                      MPRampsOf(k[1], NSteps, name)[k]],
                  next)
    ELSE /\ cons' = ((name \o "_constr") :>
                        MPRampsOf(sets[over][1], MinOf(Unpaired), name)) @@ cons
         /\ pc' = "raised"
         /\ err' = <<"KeyError",
                     <<sets[over][1], PeriodOf(MinOf(Unpaired)), MinOf(Unpaired) - 1>>>>
         /\ UNCHANGED <<cfg, blk, obj, sets, bvars>>

MPFlowPositiveGradient ==
    /\ blk = "MultiPeriodFlow"
    /\ pc = "positive_gradient_constr"
    /\ MPRampRule("positive_gradient", "POSITIVE_GRADIENT_FLOWS",
                  "negative_gradient_constr")

MPFlowNegativeGradient ==
    /\ blk = "MultiPeriodFlow"
    /\ pc = "negative_gradient_constr"
    /\ MPRampRule("negative_gradient", "NEGATIVE_GRADIENT_FLOWS",
                  "integer_flow_constr")

\* _integer_flow_rule
FlowInteger ==
    /\ Plain
    /\ pc = "integer_flow_constr"
    /\ Build("integer_flow_constr",
             [k \in DOMAIN bvars["integer_flow"] |->
                 IF blk = "Flow"
                 THEN Eq(Term(1, V("integer_flow", k[1], NoIdx, k[2])),
                         PlainFlow(k[1], NoIdx, k[2]))
                 ELSE Eq(Term(1, V("integer_flow", k[1], k[2], k[3])),
                         PlainFlow(k[1], k[2], k[3]))],
             "done")

InitFlow ==
    /\ cfg \in FlowConfigs
    /\ blk = PlainBlock
    /\ pc = "create"
    /\ sets = << >>
    /\ bvars = << >>
    /\ cons = << >>
    /\ err = None
    /\ obj = None

NextFlow ==
    \/ FlowCreateSets
    \/ FlowCreateVariables
    \/ FlowSummedMax
    \/ FlowSummedMin
    \/ FlowPositiveGradient
    \/ FlowNegativeGradient
    \/ MPFlowPositiveGradient
    \/ MPFlowNegativeGradient
    \/ FlowInteger

SpecFlow == InitFlow /\ [][NextFlow]_vars

----------------------------------------------------------------------------
(* _objective_expression of the flow blocks.  A cost expression is the     *)
(* sequence of its summands <<variable, coefficient>>, in the order they   *)
(* are added; 0 is the empty sequence.  Discount factors and annuities are *)
(* kept as the arguments they are computed from.                           *)

RECURSIVE Flatten(_)
Flatten(ss) == IF ss = << >> THEN << >> ELSE ss[1] \o Flatten(Tail(ss))

\* m.FLOWS: every flow of the model
FLOWS == [k \in 1..Cardinality(DOMAIN cfg.flows) |-> FlowId(k)]

Costed(terms, warnings, attrs) ==
    [terms |-> terms, warnings |-> warnings, attrs |-> attrs]

\* the cost attributes of an investment
CostFields(interest, fixed) ==
    [ep_costs |-> Listed(1, 1), offset |-> Scalar(1),
     interest_rate |-> interest, fixed_costs |-> fixed]

\* investment flows that differ in convexity, interest rate and fixed costs
CostAttrs ==
    {CostFields(i, fc) @@ [DefaultAttr EXCEPT !.nonconvex = nc] :
        nc \in BOOLEAN, i \in {0, 3}, fc \in {None, Some(Scalar(1))}}

CompanionCosts ==
    {CostFields(0, None) @@ DefaultAttr,
     CostFields(0, None) @@ [DefaultAttr EXCEPT !.nonconvex = TRUE],
     CostFields(3, Some(Scalar(1))) @@ DefaultAttr}

CostGroups ==
    {<<a>> : a \in CostAttrs} \cup UNION {[1..n -> CompanionCosts] : n \in 2..MaxGroup}

CostConfigs ==
    {[multi_period |-> mc.multi_period, years |-> mc.years,
      group |-> Some([k \in DOMAIN as |-> FlowId(k)]),
      flows |-> [f \in {FlowId(k) : k \in DOMAIN as} |-> as[f[1]]]] :
        mc \in {x \in ModelConfigs : Uniform(x.years)}, as \in CostGroups}
    \cup
    \* no investment flow in the network: the flows of the model have
    \* another shape
    {[multi_period |-> mc.multi_period, years |-> mc.years,
      group |-> None, flows |-> (FlowId(1) :> a)] :
        mc \in {x \in ModelConfigs : Uniform(x.years)}, a \in OtherFlows}

\* a gradient variable the objective of the plain block cannot read
Unreadable(f) ==
    \/ /\ flows(f).positive_gradient.ub # None
       /\ \/ ~Created("positive_gradient")
          \/ \E t \in TIMESTEPS : <<f, t>> \notin DOMAIN bvars["positive_gradient"]
    \/ /\ flows(f).negative_gradient.ub # None
       /\ \/ ~Created("negative_gradient")
          \/ \E t \in TIMESTEPS : <<f, t>> \notin DOMAIN bvars["negative_gradient"]

\* m.objective_weighting[t]
objective_weighting(t) == timeincrement(t)

\* the summands one flow adds in Flow._objective_expression and, discounted
\* by period, in MultiPeriodFlow._objective_expression
PlainCostsOf(f) ==
    LET ti == TIMEINDEX
        disc(p) == IF blk = "Flow" THEN << >> ELSE <<"discounted", p>>
        series(g) == [k \in DOMAIN ti |-> <<g, ti[k][1], ti[k][2]>>]
    IN (IF flows(f).variable_costs # None
        THEN [k \in DOMAIN ti |->
                <<V("flow", f, IF blk = "Flow" THEN NoIdx ELSE ti[k][1], ti[k][2]),
                  <<objective_weighting(ti[k][2])
                      * At(Val(flows(f).variable_costs),
                           IF blk = "Flow" THEN ti[k][2] ELSE ti[k][1])>>
                  \o disc(ti[k][1])>>]
        ELSE << >>)
       \o (IF flows(f).positive_gradient.ub # None
           THEN [k \in DOMAIN ti |->
                   <<V("positive_gradient", f, NoIdx, ti[k][2]),
                     <<flows(f).positive_gradient.costs>> \o disc(ti[k][1])>>]
           ELSE << >>)
       \o (IF flows(f).negative_gradient.ub # None
           THEN [k \in DOMAIN ti |->
                   <<V("negative_gradient", f, NoIdx, ti[k][2]),
                     <<flows(f).negative_gradient.costs>> \o disc(ti[k][1])>>]
           ELSE << >>)

\* the flows the objective of the plain block sums over: "for i, o in m.FLOWS"
CostedFlows == FLOWS

\* Flow._objective_expression, MultiPeriodFlow._objective_expression
FlowObjective ==
    /\ Plain
    /\ pc = "done"
    /\ LET over == CostedFlows
           bad == {k \in DOMAIN over : Unreadable(over[k])}
       IN IF bad = {}
          THEN /\ obj' = Costed(Flatten([k \in DOMAIN over |-> PlainCostsOf(over[k])]),
                                << >>, {})
               /\ pc' = "costed"
               /\ err' = err
          ELSE /\ obj' = obj
               /\ pc' = "raised"
               /\ err' = <<"AttributeError", over[MinOf(bad)]>>
    /\ UNCHANGED <<cfg, blk, sets, bvars, cons>>

\* the summands of one cost series of NonConvexFlow._objective_expression
NonConvexCostsOf(over, name, attr) ==
    Flatten([k \in DOMAIN sets[over] |->
                LET f == sets[over][k]
                IN IF nonconvex(f)[attr] # None
                   THEN [t \in 1..cfg.horizon |->
                           <<V(name, f, NoIdx, t - 1), <<Val(nonconvex(f)[attr])>>>>]
                   ELSE << >>])

\* NonConvexFlow._objective_expression
NCObjective ==
    /\ blk = "NonConvexFlow"
    /\ pc = "done"
    /\ obj' = IF sets = << >>
              THEN Costed(<< >>, << >>, {})
              ELSE Costed(NonConvexCostsOf("STARTUPFLOWS", "startup", "startup_costs")
                          \o NonConvexCostsOf("SHUTDOWNFLOWS", "shutdown", "shutdown_costs")
                          \o NonConvexCostsOf("ACTIVITYCOSTFLOWS", "status", "activity_costs"),
                          << >>,
                          {a \in {"startup_costs", "shutdown_costs", "activity_costs"} :
                              \/ a = "startup_costs" /\ sets["STARTUPFLOWS"] # << >>
                              \/ a = "shutdown_costs" /\ sets["SHUTDOWNFLOWS"] # << >>
                              \/ a = "activity_costs" /\ sets["ACTIVITYCOSTFLOWS"] # << >>})
    /\ pc' = "costed"
    /\ UNCHANGED <<cfg, blk, sets, bvars, cons, err>>

\* the interest rate of every flow taken from the flow itself
WaccOwn(f) == <<"interest_rate", investment(f).interest_rate>>

\* "if interest == 0: ... interest = m.discount_rate"
Wacc(f) ==
    IF investment(f).interest_rate = 0 THEN <<"discount_rate">>
    ELSE <<"interest_rate", investment(f).interest_rate>>

\* the flows of a Set that trigger the warning, in the order of the Set
Warned(over) == SelectSeq(sets[over], LAMBDA f : investment(f).interest_rate = 0)

\* economics.annuity(capex, n, wacc) * lifetime, discounted to year y
Annuity(f, p, y) ==
    <<"annuity", At(investment(f).ep_costs, p), Val(investment(f).lifetime), Wacc(f),
      "lifetime", Val(investment(f).lifetime), "discounted", y>>

\* the investment costs of the flows of one Set over all periods; year(p) is
\* the exponent of the discount factor of period p
AnnuityCosts(over, withOffset, year(_)) ==
    Flatten([k \in DOMAIN sets[over] |->
        Flatten([q \in 1..Len(cfg.years) |->
            LET f == sets[over][k]
                p == q - 1
            IN <<<<V("invest", f, p, NoIdx), Annuity(f, p, year(p))>>>>
               \o (IF withOffset
                   THEN <<<<V("invest_status", f, p, NoIdx),
                            <<"offset", At(investment(f).offset, p),
                              "discounted", year(p)>>>>>>
                   ELSE << >>)])])

\* the investment costs of a standard model
PlainInvestCosts ==
    Flatten([k \in DOMAIN sets["CONVEX_INVESTFLOWS"] |->
        [q \in 1..Len(cfg.years) |->
            <<V("invest", sets["CONVEX_INVESTFLOWS"][k], q - 1, NoIdx),
              <<At(investment(sets["CONVEX_INVESTFLOWS"][k]).ep_costs, q - 1)>>>>]])
    \o
    Flatten([k \in DOMAIN sets["NON_CONVEX_INVESTFLOWS"] |->
        Flatten([q \in 1..Len(cfg.years) |->
            LET f == sets["NON_CONVEX_INVESTFLOWS"][k]
            IN <<<<V("invest", f, q - 1, NoIdx), <<At(investment(f).ep_costs, q - 1)>>>>,
                 <<V("invest_status", f, q - 1, NoIdx),
                   <<At(investment(f).offset, q - 1)>>>>>>])])

\* the fixed costs of a multi-period model: of every investment over its
\* lifetime and of the existing capacity over its remaining lifetime
FixedCosts ==
    Flatten([k \in DOMAIN sets["INVESTFLOWS"] |->
        LET f == sets["INVESTFLOWS"][k]
        IN IF investment(f).fixed_costs # None
           THEN [q \in 1..Len(cfg.years) |->
                   <<V("invest", f, q - 1, NoIdx),
                     <<"fixed", Val(investment(f).fixed_costs),
                       "from", periods_years(q - 1),
                       "to", periods_years(q - 1) + Val(investment(f).lifetime),
                       "discounted", periods_years(q - 1)>>>>]
           ELSE << >>])
    \o
    Flatten([k \in DOMAIN sets["EXISTING_INVESTFLOWS"] |->
        LET f == sets["EXISTING_INVESTFLOWS"][k]
        IN IF investment(f).fixed_costs # None
           THEN <<<<None, <<"existing", investment(f).existing,
                            "fixed", Val(investment(f).fixed_costs),
                            "from", 0,
                            "to", Val(investment(f).lifetime) - investment(f).age>>>>>>
           ELSE << >>])

\* InvestmentFlowBlock._objective_expression
InvObjective ==
    /\ blk = "InvestmentFlowBlock"
    /\ pc = "done"
    /\ obj' =
          IF sets = << >> THEN Costed(<< >>, << >>, {})
          ELSE IF ~cfg.multi_period
          THEN Costed(PlainInvestCosts, << >>,
                      {"investment_costs", "period_investment_costs",
                       "fixed_costs", "costs"})
          ELSE Costed(AnnuityCosts("CONVEX_INVESTFLOWS", FALSE, periods_years)
                      \o AnnuityCosts("NON_CONVEX_INVESTFLOWS", TRUE, periods_years)
                      \o FixedCosts,
                      Warned("CONVEX_INVESTFLOWS") \o Warned("NON_CONVEX_INVESTFLOWS"),
                      {"investment_costs", "period_investment_costs",
                       "fixed_costs", "costs"})
    /\ pc' = "costed"
    /\ UNCHANGED <<cfg, blk, sets, bvars, cons, err>>

\* the exponent -p of the discount factor in the block of blocks.py
PeriodItself(p) == p

\* MultiPeriodInvestmentFlow._objective_expression
MPObjective ==
    /\ blk = "MultiPeriodInvestmentFlow"
    /\ pc = "done"
    /\ obj' =
          IF sets = << >> THEN Costed(<< >>, << >>, {})
          ELSE Costed(AnnuityCosts("CONVEX_MULTIPERIODINVESTFLOWS", FALSE, PeriodItself)
                      \o AnnuityCosts("NON_CONVEX_MULTIPERIODINVESTFLOWS", TRUE,
                                      PeriodItself),
                      Warned("CONVEX_MULTIPERIODINVESTFLOWS")
                      \o Warned("NON_CONVEX_MULTIPERIODINVESTFLOWS"),
                      {"investment_costs"})
    /\ pc' = "costed"
    /\ UNCHANGED <<cfg, blk, sets, bvars, cons, err>>

InitCosts ==
    /\ \/ cfg \in FlowConfigs /\ blk = PlainBlock
       \/ cfg \in NonConvexConfigs /\ blk = "NonConvexFlow"
       \/ /\ cfg \in CostConfigs
          /\ blk \in {"InvestmentFlowBlock", "MultiPeriodInvestmentFlow"}
          /\ blk = "MultiPeriodInvestmentFlow" => cfg.multi_period
       \/ /\ cfg \in {[multi_period |-> FALSE, years |-> <<0>>, horizon |-> h,
                       group |-> None, flows |-> (FlowId(1) :> a)] :
                         h \in 1..MaxHorizon, a \in OtherFlows}
          /\ blk = "NonConvexFlow"
    /\ pc = "create"
    /\ sets = << >>
    /\ bvars = << >>
    /\ cons = << >>
    /\ err = None
    /\ obj = None

NextCosts ==
    \/ NextFlow
    \/ NextNonConvex
    \/ NextInvest
    \/ FlowObjective
    \/ NCObjective
    \/ InvObjective
    \/ MPObjective

SpecCosts == InitCosts /\ [][NextCosts]_vars

----------------------------------------------------------------------------
(* constraints/multiperiodinvestment_limit.py: limits added to a model     *)
(* that has been built.  The model holds the investment flow block under   *)
(* its class name and cfg.others, blocks of components with investments.   *)

\* the keyword of additional_multiperiodinvestment_flow_limit
Keyword == "space"

\* investments with and without an attribute named like the keyword
LimitFlows ==
    {CostFields(0, None) @@ DefaultAttr @@ [extras |-> (Keyword :> 4)],
     CostFields(3, Some(Scalar(1))) @@ DefaultAttr @@ [extras |-> << >>],
     CostFields(0, None) @@ [DefaultAttr EXCEPT !.nonconvex = TRUE]
        @@ [extras |-> (Keyword :> 1)]}

\* blocks of other components that carry investment_costs
OtherInvestBlocks ==
    {"GenericMultiPeriodInvestmentStorageBlock", "SinkDSMDLRMultiPeriodInvestmentBlock"}

LimitConfigs ==
    {[multi_period |-> mc.multi_period, years |-> mc.years,
      group |-> Some([k \in DOMAIN as |-> FlowId(k)]),
      flows |-> [f \in {FlowId(k) : k \in DOMAIN as} |-> as[f[1]]],
      others |-> o, limit |-> 5] :
        mc \in {x \in ModelConfigs : Uniform(x.years)},
        as \in UNION {[1..n -> LimitFlows] : n \in 1..MaxGroup},
        o \in SUBSET OtherInvestBlocks}
    \cup
    \* a model without investment flows, and a model without any flow
    {[multi_period |-> mc.multi_period, years |-> mc.years,
      group |-> None, flows |-> fl, others |-> o, limit |-> 5] :
        mc \in {x \in ModelConfigs : Uniform(x.years)},
        fl \in {<< >>} \cup {(FlowId(1) :> (a @@ [extras |-> << >>])) : a \in OtherFlows},
        o \in SUBSET OtherInvestBlocks}

\* the block names multiperiodinvestment_rule looks for with hasattr(m, ...)
SummedBlocks ==
    {"MultiPeriodInvestmentFlow", "GenericMultiPeriodInvestmentStorageBlock",
     "SinkDSMOemofMultiPeriodInvestmentBlock", "SinkDSMDIWMultiPeriodInvestmentBlock",
     "SinkDSMDLRMultiPeriodInvestmentBlock"}

\* the blocks of the model: the investment flow block and cfg.others
ModelBlocks == {blk} \cup cfg.others

\* block.investment_costs: of the flow block the summands of the objective
\* that _objective_expression stored under that name, of another block a
\* symbol
investment_costs(b) ==
    IF b = blk
    THEN SelectSeq(obj.terms, LAMBDA x : x[1] # None /\ x[2][1] \in {"annuity", "offset"})
    ELSE <<<<b, <<"investment_costs">>>>>>

\* the blocks summed by multiperiodinvestment_rule, in the order of the rule
SummedSeq ==
    SelectSeq(<<"MultiPeriodInvestmentFlow", "GenericMultiPeriodInvestmentStorageBlock",
                "SinkDSMOemofMultiPeriodInvestmentBlock",
                "SinkDSMDIWMultiPeriodInvestmentBlock",
                "SinkDSMDLRMultiPeriodInvestmentBlock">>,
              LAMBDA b : b \in ModelBlocks)

\* a block that is summed although _objective_expression returned before
\* setting investment_costs
Unset(b) == b = blk /\ "investment_costs" \notin obj.attrs

\* multiperiodinvestment_limit(model, limit)
MultiperiodInvestmentLimit ==
    /\ blk \in {"InvestmentFlowBlock", "MultiPeriodInvestmentFlow"}
    /\ pc = "costed"
    /\ "others" \in DOMAIN cfg
    /\ IF ~cfg.multi_period
       THEN /\ err' = <<"ValueError", "multiperiodinvestment_limit">>
            /\ pc' = "raised"
            /\ cons' = cons
       ELSE IF \E k \in DOMAIN SummedSeq : Unset(SummedSeq[k])
       THEN /\ err' = <<"AttributeError", "investment_costs">>
            /\ pc' = "raised"
            /\ cons' = cons
       ELSE IF SummedSeq = << >>
       \* "return expr <= limit" is the Python value 0 <= limit
       THEN /\ err' = <<"ValueError", "trivial Boolean">>
            /\ pc' = "raised"
            /\ cons' = cons
       ELSE /\ cons' = ("multiperiodinvestment_limit" :>
                          [lhs |-> Flatten([k \in DOMAIN SummedSeq |->
                                              investment_costs(SummedSeq[k])]),
                           op |-> "<=", rhs |-> cfg.limit]) @@ cons
            /\ pc' = "limited"
            /\ err' = err
    /\ UNCHANGED <<cfg, blk, obj, sets, bvars>>

\* the attributes of a flow that the blocks read
FlowAttributes ==
    {"nominal_value", "fix", "min", "max", "summed_max", "summed_min",
     "positive_gradient", "negative_gradient", "integer", "variable_costs",
     "investment", "multiperiodinvestment", "nonconvex"}

\* "mutliperiodinvest_limit_" + keyword, for the keyword "space"
limit_name == "mutliperiodinvest_limit_space"

\* limit_name + "_constraint"
limit_constraint == "mutliperiodinvest_limit_space_constraint"

\* model.flows, in order
ModelFlows == [k \in 1..Cardinality(DOMAIN cfg.flows) |-> FlowId(k)]

\* the flows whose investment has an attribute named like the keyword
multiperiodinvest_flows ==
    SelectSeq(ModelFlows, LAMBDA f : Keyword \in DOMAIN cfg.flows[f].extras)

\* additional_multiperiodinvestment_flow_limit(model, keyword, limit)
AdditionalLimit ==
    /\ blk \in {"InvestmentFlowBlock", "MultiPeriodInvestmentFlow"}
    /\ pc = "costed"
    /\ "others" \in DOMAIN cfg
    /\ IF ~cfg.multi_period
       THEN /\ err' = <<"ValueError", "additional_multiperiodinvestment_limit">>
            /\ pc' = "raised"
            /\ cons' = cons
       \* hasattr(model.flows[i, o].mutliperiodinvestment, keyword)
       ELSE IF ModelFlows # << >> /\ "mutliperiodinvestment" \notin FlowAttributes
       THEN /\ err' = <<"AttributeError", "mutliperiodinvestment">>
            /\ pc' = "raised"
            /\ cons' = cons
       \* model.MultiPeriodInvestmentFlow.invest[inflow, outflow]: a key of
       \* two members for a variable indexed by flow and period
       ELSE IF multiperiodinvest_flows # << >>
       THEN /\ err' = <<"KeyError", multiperiodinvest_flows[1]>>
            /\ pc' = "raised"
            /\ cons' = cons
       ELSE /\ cons' = (limit_constraint :>
                          [lhs |-> <<limit_name>>, op |-> "<=", rhs |-> cfg.limit])
                       @@ (limit_name :> << >>) @@ cons
            /\ pc' = "limited"
            /\ err' = err
    /\ UNCHANGED <<cfg, blk, obj, sets, bvars>>

InitLimit ==
    /\ cfg \in LimitConfigs
    /\ blk \in {"InvestmentFlowBlock", "MultiPeriodInvestmentFlow"}
    /\ blk = "MultiPeriodInvestmentFlow" => cfg.multi_period
    /\ pc = "create"
    /\ sets = << >>
    /\ bvars = << >>
    /\ cons = << >>
    /\ err = None
    /\ obj = None

NextLimit ==
    \/ NextInvest
    \/ InvObjective
    \/ MPObjective
    \/ MultiperiodInvestmentLimit
    \/ AdditionalLimit

SpecLimit == InitLimit /\ [][NextLimit]_vars

----------------------------------------------------------------------------
(* A model of several blocks: two sources with fixed flows, a converter    *)
(* with two inputs and one output, a sink with a fixed flow and the three  *)
(* buses between them (tests/.../test_mimo_converter.py).                  *)

\* the labels of the nodes
gas_station == "gas_station"
hydro_station == "hydro_station"
b_gas == "gas"
b_hydro == "hydro"
mimo == "mimo"
b_electricity == "electricity"
demand == "demand"

\* conversion factors in tenths: 1.2, 1.3, and 1 for a flow the component
\* gives none for
InTenths == [gas |-> 12, hydro |-> 13, one |-> 10]

\* the network of the test for given fixed series; withDefault tells whether
\* the converter holds a factor for its output as well
MimoNetwork(gas, hydro, load, withDefault) ==
    [multi_period |-> FALSE, years |-> <<0>>,
     group |-> Some(<<b_gas, b_hydro, b_electricity>>),
     converters |-> <<mimo>>,
     inputs |-> (b_gas :> <<gas_station>>) @@ (b_hydro :> <<hydro_station>>)
                @@ (b_electricity :> <<mimo>>) @@ (mimo :> <<b_gas, b_hydro>>),
     outputs |-> (b_gas :> <<mimo>>) @@ (b_hydro :> <<mimo>>)
                 @@ (b_electricity :> <<demand>>) @@ (mimo :> <<b_electricity>>),
     conversion_factors |->
        (mimo :> ((b_gas :> Scalar(InTenths.gas)) @@ (b_hydro :> Scalar(InTenths.hydro))
                  @@ (IF withDefault THEN (b_electricity :> Scalar(InTenths.one))
                      ELSE << >>))),
     fix |-> (<<gas_station, b_gas>> :> gas) @@ (<<hydro_station, b_hydro>> :> hydro)
             @@ (<<b_electricity, demand>> :> load),
     nominal_value |-> 1]

\* the network of the test and networks that differ from it in a series
MimoConfigs ==
    {MimoNetwork(g, h, l, d) :
        g \in {<<120, 0>>, <<120, 120>>, <<0, 0>>},
        h \in {<<0, 130>>, <<130, 130>>, <<0, 0>>},
        l \in {<<100, 100>>, <<0, 0>>},
        d \in BOOLEAN}

\* fix[t] of a series given as a list
FixAt(series, t) == series[(t % Len(series)) + 1]

\* a flow with fix: the variable is set to fix[t] * nominal_value and fixed
MimoFix ==
    /\ blk = "Model"
    /\ pc = "create"
    /\ cons' = ("fix" :>
                  [k \in {<<io, t>> : io \in DOMAIN cfg.fix, t \in TIMESTEPS} |->
                      Eq(flow4(k[1][1], k[1][2], 0, k[2]),
                         Const(FixAt(cfg.fix[k[1]], k[2]) * cfg.nominal_value))]) @@ cons
    /\ blk' = "Bus"
    /\ UNCHANGED <<cfg, pc, obj, sets, bvars, err>>

\* the model hands the converters to the block of the conversion relation
MimoNext ==
    /\ blk = "Bus"
    /\ pc = "done"
    /\ "converters" \in DOMAIN cfg
    /\ blk' = "Transformer"
    /\ cfg' = [cfg EXCEPT !.group = Some(cfg.converters)]
    /\ pc' = "create"
    /\ UNCHANGED <<obj, sets, bvars, cons, err>>

InitMimo ==
    /\ cfg \in MimoConfigs
    /\ blk = "Model"
    /\ pc = "create"
    /\ sets = << >>
    /\ bvars = << >>
    /\ cons = << >>
    /\ err = None
    /\ obj = None

NextMimo ==
    \/ MimoFix
    \/ BusCreate
    \/ MimoNext
    \/ TransformerCreate

SpecMimo == InitMimo /\ [][NextMimo]_vars

----------------------------------------------------------------------------
(* Formulation of a block that can end with a configuration error.         *)

InitAbort == InitInvest \/ InitTransformer

NextAbort == NextInvest \/ NextTransformer

SpecAbort == InitAbort /\ [][NextAbort]_vars

----------------------------------------------------------------------------
(* Properties of the investment blocks.                                    *)

Final == pc \in {"done", "raised"}
NewBlock == blk = "InvestmentFlowBlock"
GroupFlows == IF cfg.group = None THEN {} ELSE Range(group)
AllPeriodKeys == {<<f, p>> : f \in GroupFlows, p \in PERIODS}

vInvest(f, p) == V("invest", f, p, NoIdx)
vTotal(f, p) == V("total", f, p, NoIdx)
vOld(f, p) == V("old", f, p, NoIdx)
vOldEnd(f, p) == V("old_end", f, p, NoIdx)
vOldExo(f, p) == V("old_exo", f, p, NoIdx)
vStatus(f, p) == V("invest_status", f, p, NoIdx)
vFlow(f, p, t) == V("flow", f, p, t)

\* the constraint c mentions exactly the variables S and is satisfied by
\* exactly the assignments for which P holds
Means(c, S, P(_)) ==
    /\ VarsOf(c) = S
    /\ \A val \in Assignments(S) : Holds(c, val) <=> P(val)

\* C1: in both investment blocks the total-capacity constraints are indexed by
\* exactly the (flow, period) pairs of the group, one constraint per pair; the
\* constraint of period 0 says total(0) = invest(0) + existing and the one of
\* every later period says total(p) = total(p-1) + invest(p) - old(p).
C1_TotalCapacity ==
    (Final /\ Declared("total_rule")) =>
        /\ DOMAIN cons["total_rule"] = AllPeriodKeys
        /\ \A k \in AllPeriodKeys :
              LET f == k[1]
                  p == k[2]
              IN IF p = 0
                 THEN Means(cons["total_rule"][k], {vTotal(f, 0), vInvest(f, 0)},
                            LAMBDA val : val[vTotal(f, 0)]
                                         = val[vInvest(f, 0)] + cfg.flows[f].existing)
                 ELSE Means(cons["total_rule"][k],
                            {vTotal(f, p), vTotal(f, p - 1), vInvest(f, p), vOld(f, p)},
                            LAMBDA val : val[vTotal(f, p)]
                                         = val[vTotal(f, p - 1)] + val[vInvest(f, p)]
                                           - val[vOld(f, p)])

\* a multi-period model with existing capacity whose total-capacity
\* constraints have been built by the block of flows/_investment_flow_block.py
C1_Witness ==
    /\ NewBlock
    /\ pc = "done"
    /\ Declared("total_rule")
    /\ Len(cfg.years) >= 3
    /\ \E f \in GroupFlows : cfg.flows[f].existing > 0

\* the periods after the first in which the existing capacity of f has
\* reached its lifetime
ReachedAfterStart(f) ==
    {p \in PERIODS \ {0} :
        Val(cfg.flows[f].lifetime) - cfg.flows[f].age <= periods_years(p)}

\* the periods in which the existing capacity of f has reached its lifetime
Reached(f) ==
    {p \in PERIODS : Val(cfg.flows[f].lifetime) - cfg.flows[f].age <= periods_years(p)}

\* the exogenous decommissioning constraints put the existing capacity into
\* the first period of S and zero into every other period
ExoAppliedOnceIn(S(_)) ==
    (NewBlock /\ Final /\ Declared("old_rule_exo")) =>
        /\ DOMAIN cons["old_rule_exo"] = AllPeriodKeys
        /\ \A k \in AllPeriodKeys :
              LET f == k[1]
                  p == k[2]
              IN Means(cons["old_rule_exo"][k], {vOldExo(f, p)},
                       LAMBDA val : val[vOldExo(f, p)]
                                    = IF S(f) # {} /\ p = MinOf(S(f))
                                      THEN cfg.flows[f].existing ELSE 0)

\* C2 as stated: old_exo(p) = existing in the first period in which
\* lifetime - age <= year(p), and old_exo(p) = 0 in every other period.
C2_AsStated == ExoAppliedOnceIn(Reached)

\* C2, amended: old_exo(0) = 0; old_exo(p) = existing in the first period p > 0
\* in which lifetime - age <= year(p); old_exo(p) = 0 in every other period,
\* and everywhere when the condition holds in no period after the first.
C2_ExoOnce == ExoAppliedOnceIn(ReachedAfterStart)

\* existing capacity that is decommissioned in a period after the second,
\* followed by further periods
C2_Witness ==
    /\ NewBlock
    /\ pc = "done"
    /\ Declared("old_rule_exo")
    /\ \E f \in GroupFlows :
          /\ cfg.flows[f].existing > 0
          /\ ReachedAfterStart(f) # {}
          /\ MinOf(ReachedAfterStart(f)) >= 2
          /\ MinOf(ReachedAfterStart(f)) < LastPeriod

\* the periods whose investment has reached its lifetime by period p
Expired(f, p) ==
    {k \in PERIODS : periods_years(k) + Val(cfg.flows[f].lifetime) <= periods_years(p)}

MaxOf(S) == CHOOSE x \in S : \A y \in S : y <= x

\* C3: old_end(0) = 0; for p > 0 with lifetime <= year(p), old_end(p) =
\* invest(p_comm), p_comm being the last period before the scan value
\* year(p) - lifetime - year(k) turns negative, that is the latest period whose
\* investment has reached its lifetime by period p; otherwise old_end(p) = 0.
\* With periods of one year each, old_end(p) = invest(p - lifetime) for every
\* p >= lifetime; in Scenario B, old_end(3) = invest(0).
C3_OldEnd ==
    (NewBlock /\ Final /\ Declared("old_rule_end")) =>
        /\ err = None => DOMAIN cons["old_rule_end"] = AllPeriodKeys
        /\ \A k \in DOMAIN cons["old_rule_end"] :
              LET f == k[1]
                  p == k[2]
                  l == Val(cfg.flows[f].lifetime)
                  c == cons["old_rule_end"][k]
              IN /\ IF p > 0 /\ l <= periods_years(p)
                    THEN /\ Expired(f, p) # {}
                         /\ Means(c, {vOldEnd(f, p), vInvest(f, MaxOf(Expired(f, p)))},
                                  LAMBDA val : val[vOldEnd(f, p)]
                                               = val[vInvest(f, MaxOf(Expired(f, p)))])
                    ELSE Means(c, {vOldEnd(f, p)}, LAMBDA val : val[vOldEnd(f, p)] = 0)
                 /\ (Uniform(cfg.years) /\ p >= l) =>
                        vInvest(f, p - l) \in VarsOf(c)
                 /\ (cfg = ScenarioB /\ p = 3) =>
                        c = Eq(Term(1, vOldEnd(f, 3)), Term(1, vInvest(f, 0)))

\* Scenario B with its endogenous decommissioning constraints built
C3_Witness ==
    /\ cfg = ScenarioB
    /\ NewBlock
    /\ pc = "done"
    /\ Declared("old_rule_end")
    /\ DOMAIN cons["old_rule_end"] = AllPeriodKeys

\* the flows of the group without a lifetime
Lifeless == {f \in GroupFlows : cfg.flows[f].lifetime = None}

\* the first flow of the group without a lifetime
FirstLifeless == group[MinOf({k \in DOMAIN group : group[k] \in Lifeless})]

\* C4 as stated: the error is raised whenever the model has more than one
\* period and a flow has no lifetime, and a model with a single period and no
\* lifetime raises no error.
C4_AsStated ==
    (NewBlock /\ Final) =>
        /\ (Len(cfg.years) > 1 /\ Lifeless # {}) => err = <<"ValueError", FirstLifeless>>
        /\ Len(cfg.years) = 1 => err = None

\* C4, amended: formulating the investment block ends with ValueError, naming
\* the first flow (i, o) without a lifetime, exactly when the model is a
\* multi-period model (whatever the number of its periods) and some flow of
\* the group has no lifetime; the error is raised by the build step of the
\* endogenous decommissioning rule, and no later build step runs; a standard
\* (not multi-period) model without lifetimes raises no error.
C4_MissingLifetime ==
    NewBlock =>
        /\ Final =>
              IF cfg.multi_period /\ Lifeless # {}
              THEN /\ pc = "raised"
                   /\ err = <<"ValueError", FirstLifeless>>
                   /\ ~Declared("old_rule_exo")
                   /\ ~Declared("fixed")
              ELSE pc = "done" /\ err = None
        /\ err # None => pc = "raised"
        /\ (Declared("old_rule_end") /\ Lifeless # {}) => err # None

\* a multi-period model of several periods whose second flow has no lifetime,
\* after the error
C4_Witness ==
    /\ NewBlock
    /\ pc = "raised"
    /\ Len(cfg.years) > 1
    /\ Len(group) = 2
    /\ Lifeless = {group[2]}

----------------------------------------------------------------------------
(* Configuration errors.                                                   *)

Erring == blk \in {"InvestmentFlowBlock", "Transformer", "MultiPeriodTransformer"}

\* the flows of the group before the first one without a lifetime
BeforeFirstLifeless ==
    {group[k] : k \in 1..(MinOf({j \in DOMAIN group : group[j] \in Lifeless}) - 1)}

\* (node, output, input) positions in the order of the converter's loops
Triples ==
    UNION {{<<a, b, c>> : b \in DOMAIN cfg.outputs[group[a]],
                          c \in DOMAIN cfg.inputs[group[a]]} : a \in DOMAIN group}

Lacking(x) ==
    LET n == group[x[1]]
    IN \/ cfg.outputs[n][x[2]] \notin DOMAIN cfg.conversion_factors[n]
       \/ cfg.inputs[n][x[3]] \notin DOMAIN cfg.conversion_factors[n]

Earlier(x, y) ==
    \/ x[1] < y[1]
    \/ x[1] = y[1] /\ x[2] < y[2]
    \/ x[1] = y[1] /\ x[2] = y[2] /\ x[3] < y[3]

\* the relation keys of the combinations that precede every combination
\* lacking a factor, at the first timestep
RelationKeysBeforeError ==
    {IF blk = "Transformer"
     THEN <<group[x[1]], cfg.inputs[group[x[1]]][x[3]], cfg.outputs[group[x[1]]][x[2]], 0>>
     ELSE <<group[x[1]], cfg.inputs[group[x[1]]][x[3]], cfg.outputs[group[x[1]]][x[2]], 0, 0>> :
        x \in {y \in Triples : \A z \in Triples : Lacking(z) => Earlier(y, z)}}

\* C5 as stated: when the missing-lifetime error or the missing-factor error
\* is raised, no constraint of the block has been added for any flow or node.
C5_AsStated ==
    (Erring /\ err # None) => \A n \in DOMAIN cons : DOMAIN cons[n] = {}

\* C5, amended: a configuration error ends the formulation of the block: once
\* the missing-lifetime error or the missing-factor error is raised no further
\* build step runs and nothing more is added.  The constraints emitted before
\* the error stay in the block: for the investment block the complete minimum,
\* maximum and total-capacity rules and the endogenous decommissioning
\* constraints of the flows that precede the first flow without a lifetime;
\* for the converter block the relations, at the first timestep, of the
\* combinations that precede the first one lacking a factor.
C5_Abort ==
    (Erring /\ err # None) =>
        /\ pc = "raised"
        /\ ~ENABLED NextAbort
        /\ IF NewBlock
           THEN /\ DOMAIN cons = {"minimum_rule", "maximum_rule", "total_rule",
                                  "old_rule_end"}
                /\ DOMAIN cons["minimum_rule"] =
                      {k \in AllPeriodKeys : cfg.flows[k[1]].nonconvex}
                /\ DOMAIN cons["maximum_rule"] = DOMAIN cons["minimum_rule"]
                /\ DOMAIN cons["total_rule"] = AllPeriodKeys
                /\ DOMAIN cons["old_rule_end"] =
                      {<<f, p>> : f \in BeforeFirstLifeless, p \in PERIODS}
           ELSE /\ DOMAIN cons = {"relation"}
                /\ DOMAIN cons["relation"] = RelationKeysBeforeError

\* a converter whose formulation has ended with the error after relations of
\* earlier combinations were added
C5_Witness ==
    /\ blk = "Transformer"
    /\ pc = "raised"
    /\ DOMAIN cons["relation"] # {}

----------------------------------------------------------------------------
(* Bounds of the investment variable and of the flow.                      *)

\* C6: in the investment block every flow of the group is in exactly one of
\* the sets of convex and of non-convex flows.  A convex flow has invest(p)
\* bounded by [minimum(p), maximum(p)], no status variable and no big-M
\* constraint.  A non-convex flow has invest(p) bounded by [0, maximum(p)], a
\* binary status variable and the constraints minimum(p) * status(p) <=
\* invest(p) and invest(p) <= maximum(p) * status(p), so that status 0 forces
\* invest(p) = 0 and status 1 forces minimum(p) <= invest(p) <= maximum(p).
C6_InvestBounds ==
    (NewBlock /\ Final /\ Created("invest")) =>
        \A f \in GroupFlows, p \in PERIODS :
            LET a == cfg.flows[f]
                b == bvars["invest"][<<f, p>>]
                lo == a.minimum.v0 + a.minimum.dv * p
                hi == a.maximum.v0 + a.maximum.dv * p
                S == {vInvest(f, p), vStatus(f, p)}
            IN /\ (f \in Members("CONVEX_INVESTFLOWS"))
                      # (f \in Members("NON_CONVEX_INVESTFLOWS"))
               /\ (f \in Members("NON_CONVEX_INVESTFLOWS")) = a.nonconvex
               /\ ~a.nonconvex =>
                      /\ b.lb = Some(lo) /\ b.ub = Some(hi)
                      /\ <<f, p>> \notin DOMAIN bvars["invest_status"]
                      /\ Declared("minimum_rule") =>
                             <<f, p>> \notin DOMAIN cons["minimum_rule"]
                      /\ Declared("maximum_rule") =>
                             <<f, p>> \notin DOMAIN cons["maximum_rule"]
               /\ a.nonconvex =>
                      /\ b.lb = Some(0) /\ b.ub = Some(hi)
                      /\ <<f, p>> \in DOMAIN bvars["invest_status"]
                      /\ bvars["invest_status"][<<f, p>>].within = "Binary"
                      /\ Declared("minimum_rule") /\ Declared("maximum_rule")
                      /\ Declared("minimum_rule") =>
                             /\ <<f, p>> \in DOMAIN cons["minimum_rule"]
                             /\ Means(cons["minimum_rule"][<<f, p>>], S,
                                      LAMBDA val : lo * val[vStatus(f, p)]
                                                   <= val[vInvest(f, p)])
                      /\ Declared("maximum_rule") =>
                             /\ <<f, p>> \in DOMAIN cons["maximum_rule"]
                             /\ Means(cons["maximum_rule"][<<f, p>>], S,
                                      LAMBDA val : val[vInvest(f, p)]
                                                   <= hi * val[vStatus(f, p)])
                             /\ \A val \in Assignments(S) :
                                   (/\ val[vStatus(f, p)] \in {0, 1}
                                    /\ Holds(cons["minimum_rule"][<<f, p>>], val)
                                    /\ Holds(cons["maximum_rule"][<<f, p>>], val)) =>
                                       IF val[vStatus(f, p)] = 0
                                       THEN val[vInvest(f, p)] = 0
                                       ELSE /\ lo <= val[vInvest(f, p)]
                                            /\ val[vInvest(f, p)] <= hi

\* a non-convex flow with a positive minimum whose big-M constraints are built
C6_Witness ==
    /\ NewBlock
    /\ pc = "done"
    /\ Declared("maximum_rule")
    /\ \E f \in GroupFlows :
          /\ cfg.flows[f].nonconvex
          /\ cfg.flows[f].minimum.v0 > 0
          /\ cfg.flows[f].maximum.v0 <= MaxVal

WithOverallMaximum == {f \in GroupFlows : cfg.flows[f].overall_maximum # None}
WithOverallMinimum == {f \in GroupFlows : cfg.flows[f].overall_minimum # None}

\* the overall maximum constraints cover every period of every flow that has
\* an overall maximum
OverallMaximumEveryPeriod ==
    /\ DOMAIN cons["overall_maximum"] =
          {<<f, p>> : f \in WithOverallMaximum, p \in PERIODS}
    /\ \A k \in DOMAIN cons["overall_maximum"] :
          Means(cons["overall_maximum"][k], {vTotal(k[1], k[2])},
                LAMBDA val : val[vTotal(k[1], k[2])]
                             <= cfg.flows[k[1]].overall_maximum[1])

\* the overall minimum constraints: one per flow that has an overall minimum,
\* on the total of the last period
OverallMinimumLastPeriod ==
    /\ DOMAIN cons["overall_minimum"] = {<<f>> : f \in WithOverallMinimum}
    /\ \A k \in DOMAIN cons["overall_minimum"] :
          Means(cons["overall_minimum"][k], {vTotal(k[1], Len(cfg.years) - 1)},
                LAMBDA val : cfg.flows[k[1]].overall_minimum[1]
                             <= val[vTotal(k[1], Len(cfg.years) - 1)])

\* C7 as stated: for a flow with an overall maximum total(p) <= overall_maximum
\* is emitted for every period, and for a flow with an overall minimum
\* overall_minimum <= total(p) is emitted for the last period only.
C7_AsStated ==
    (pc = "done" /\ cfg.group # None) =>
        /\ WithOverallMaximum # {} =>
              Declared("overall_maximum") /\ OverallMaximumEveryPeriod
        /\ WithOverallMinimum # {} =>
              Declared("overall_minimum") /\ OverallMinimumLastPeriod

\* C7, amended: in a multi-period model, both investment blocks emit
\* total(p) <= overall_maximum for every period p of every flow with an
\* overall maximum, and overall_minimum <= total(p) for the last period only
\* of every flow with an overall minimum; in a standard model neither
\* constraint is emitted, whatever the overall limits of the flows.
C7_Overall ==
    (pc = "done" /\ cfg.group # None) =>
        /\ Declared("overall_maximum") = cfg.multi_period
        /\ Declared("overall_minimum") = cfg.multi_period
        /\ Declared("overall_maximum") => OverallMaximumEveryPeriod
        /\ Declared("overall_minimum") => OverallMinimumLastPeriod

\* a multi-period model of several periods with both overall limits, fully
\* formulated
C7_Witness ==
    /\ pc = "done"
    /\ Len(cfg.years) >= 3
    /\ WithOverallMaximum # {}
    /\ WithOverallMinimum # {}

\* the keys (flow, period, timestep) of the flows F: the period is the one
\* that contains the timestep
FlowKeys(F) == {<<f, t \div StepsPerPeriod, t>> : f \in F, t \in 0..(NSteps - 1)}

Fixed == {f \in GroupFlows : cfg.flows[f].fix # None}
WithMin ==
    {f \in GroupFlows :
        \E t \in 0..(NSteps - 1) : cfg.flows[f].min.v0 + cfg.flows[f].min.dv * t # 0}

InvestVars == {V("invest", k[1], k[2], NoIdx) : k \in AllPeriodKeys}
TotalVars == {V("total", k[1], k[2], NoIdx) : k \in AllPeriodKeys}

\* C9: the investment block of a standard (single-period) model creates none
\* of the variables old, old_end, old_exo and none of the decommissioning or
\* overall maximum/minimum constraints; its only constraint that relates
\* total to invest is total(0) = invest(0) + existing, one per flow, which is
\* also the total-capacity constraint of a multi-period model with one period.
C9_SinglePeriod ==
    NewBlock =>
        /\ ~cfg.multi_period =>
              /\ \A n \in {"old", "old_end", "old_exo"} : ~Created(n)
              /\ \A n \in {"old_rule", "old_rule_end", "old_rule_exo",
                           "overall_maximum", "overall_minimum"} : ~Declared(n)
              /\ (pc = "done" /\ cfg.group # None) => Declared("total_rule")
              /\ \A n \in DOMAIN cons \ {"total_rule"} : \A k \in DOMAIN cons[n] :
                    \/ VarsOf(cons[n][k]) \cap InvestVars = {}
                    \/ VarsOf(cons[n][k]) \cap TotalVars = {}
        /\ (Final /\ Len(cfg.years) = 1 /\ Declared("total_rule")) =>
              /\ DOMAIN cons["total_rule"] = {<<f, 0>> : f \in GroupFlows}
              /\ \A f \in GroupFlows :
                    Means(cons["total_rule"][<<f, 0>>], {vTotal(f, 0), vInvest(f, 0)},
                          LAMBDA val : val[vTotal(f, 0)]
                                       = val[vInvest(f, 0)] + cfg.flows[f].existing)

\* a standard model with existing capacity and an overall maximum, fully
\* formulated
C9_Witness ==
    /\ NewBlock
    /\ ~cfg.multi_period
    /\ pc = "done"
    /\ \E f \in WithOverallMaximum : cfg.flows[f].existing > 0

----------------------------------------------------------------------------
(* The bus balance.                                                        *)

BalanceKey(g, t) ==
    IF blk = "blocks.Bus" THEN <<g, t>> ELSE <<g, t \div StepsPerPeriod, t>>

FlowVar(i, o, t) ==
    IF blk = "blocks.Bus" THEN V("flow", <<i, o>>, NoIdx, t)
    ELSE V("flow", <<i, o>>, t \div StepsPerPeriod, t)

Inflows(g, t) == {FlowVar(cfg.inputs[g][k], g, t) : k \in DOMAIN cfg.inputs[g]}
Outflows(g, t) == {FlowVar(g, cfg.outputs[g][k], t) : k \in DOMAIN cfg.outputs[g]}

Total(S, val) == SumOver(S, [v \in S |-> 1], val)

\* C10: each of the three bus blocks emits, for a node g of its group and a
\* (period, timestep), the constraint sum of the inflows of g = sum of the
\* outflows of g exactly when g has an inflow or an outflow; a node with
\* neither gets no constraint; for a bus with one inflow and one outflow the
\* constraint lets exactly the assignments with both flows equal.
C10_BusBalance ==
    (pc = "done" /\ cfg.group # None) =>
        /\ Declared("balance")
        /\ DOMAIN cons["balance"] =
              {BalanceKey(g, t) : g \in {x \in Range(group) :
                                            cfg.inputs[x] # << >> \/ cfg.outputs[x] # << >>},
                                  t \in 0..(NSteps - 1)}
        /\ \A g \in Range(group), t \in 0..(NSteps - 1) :
              BalanceKey(g, t) \in DOMAIN cons["balance"] =>
                  LET c == cons["balance"][BalanceKey(g, t)]
                  IN /\ Means(c, Inflows(g, t) \cup Outflows(g, t),
                              LAMBDA val : Total(Inflows(g, t), val)
                                           = Total(Outflows(g, t), val))
                     /\ (Len(cfg.inputs[g]) = 1 /\ Len(cfg.outputs[g]) = 1) =>
                            \A val \in Assignments(VarsOf(c)) :
                                Holds(c, val) <=>
                                    val[FlowVar(cfg.inputs[g][1], g, t)]
                                    = val[FlowVar(g, cfg.outputs[g][1], t)]

\* a group with a bus between one source and one sink and a node without any
\* flow, formulated
C10_Witness ==
    /\ pc = "done"
    /\ cfg.group # None
    /\ \E g \in Range(group) : Len(cfg.inputs[g]) = 1 /\ Len(cfg.outputs[g]) = 1
    /\ \E g \in Range(group) : cfg.inputs[g] = << >> /\ cfg.outputs[g] = << >>

----------------------------------------------------------------------------
(* The conversion relation.                                                *)

Converting == blk \in {"Transformer", "MultiPeriodTransformer"}

RelationKey(n, i, o, t) ==
    IF blk = "Transformer" THEN <<n, i, o, t>> ELSE <<n, i, o, t \div StepsPerPeriod, t>>

ConverterFlow(i, o, t) ==
    IF blk = "Transformer" THEN V("flow", <<i, o>>, NoIdx, t)
    ELSE V("flow", <<i, o>>, t \div StepsPerPeriod, t)

\* the relation keys of converter n
RelationKeysOf(n) == {k \in DOMAIN cons["relation"] : k[1] = n}

FactorAt(n, b, t) == cfg.conversion_factors[n][b].v0 + cfg.conversion_factors[n][b].dv * t

\* C11: a completed formulation of a converter block holds, for every
\* converter n of the group, every input i, every output o of n and every
\* timestep t, exactly one relation constraint, which is
\* flow(i, n, t) * factor(o, t) = flow(n, o, t) * factor(i, t); converter n has
\* |inputs(n)| * |outputs(n)| * |timesteps| relation constraints, none when it
\* has no input or no output.
C11_Relation ==
    (Converting /\ pc = "done" /\ cfg.group # None) =>
        /\ Declared("relation")
        /\ DOMAIN cons["relation"] =
              UNION {{RelationKey(n, cfg.inputs[n][a], cfg.outputs[n][b], t) :
                         a \in DOMAIN cfg.inputs[n], b \in DOMAIN cfg.outputs[n],
                         t \in 0..(NSteps - 1)} : n \in Range(group)}
        /\ \A n \in Range(group) :
              /\ Cardinality(RelationKeysOf(n)) =
                    Len(cfg.inputs[n]) * Len(cfg.outputs[n]) * NSteps
              /\ (cfg.inputs[n] = << >> \/ cfg.outputs[n] = << >>) => RelationKeysOf(n) = {}
              /\ \A a \in DOMAIN cfg.inputs[n], b \in DOMAIN cfg.outputs[n],
                    t \in 0..(NSteps - 1) :
                    LET i == cfg.inputs[n][a]
                        o == cfg.outputs[n][b]
                        c == cons["relation"][RelationKey(n, i, o, t)]
                        x == ConverterFlow(i, n, t)
                        y == ConverterFlow(n, o, t)
                    IN /\ c.op = "=="
                       /\ c.lhs = [c |-> 0, ts |-> (x :> FactorAt(n, o, t))]
                       /\ c.rhs = [c |-> 0, ts |-> (y :> FactorAt(n, i, t))]
                       /\ Means(c, {x, y},
                                LAMBDA val : val[x] * FactorAt(n, o, t)
                                             = val[y] * FactorAt(n, i, t))

\* a converter with two inputs and two outputs in a model of several
\* timesteps, formulated
C11_Witness ==
    /\ Converting
    /\ pc = "done"
    /\ cfg.group # None
    /\ \E n \in Range(group) : Len(cfg.inputs[n]) = 2 /\ Len(cfg.outputs[n]) = 2

\* the (converter, node) pairs of incident flows without a conversion factor
LackingPairs ==
    {<<n, b>> \in Range(group) \X (1..12) :
        /\ b \in Range(cfg.inputs[n]) \cup Range(cfg.outputs[n])
        /\ b \notin DOMAIN cfg.conversion_factors[n]}

\* what the raised exception names: KeyError carries the missing key only
NamedByError == IF err[1] = "KeyError" THEN {err[2]} ELSE {err[2][1], err[2][2]}

\* C12: when a converter has an incident flow without a conversion factor,
\* formulating the relation block ends with an error that names the converter
\* together with the flow whose factor is missing.
C12_AsStated ==
    (Converting /\ Final /\ cfg.group # None /\ LackingPairs # {}) =>
        /\ err # None
        /\ \E x \in LackingPairs : NamedByError = {x[1], x[2]}

----------------------------------------------------------------------------
(* Non-convex flows.                                                       *)

Committing == blk = "NonConvexFlow"
Committed == Committing /\ pc = "done" /\ cfg.group # None

vOnOff(f, t) == V("status", f, NoIdx, t)
vStartup(f, t) == V("startup", f, NoIdx, t)
vShutdown(f, t) == V("shutdown", f, NoIdx, t)
vFlowAt(f, t) == V("flow", f, NoIdx, t)

\* whether a component holds the key of flow f and timestep t
HasStep(comp, f, t) == <<f, t>> \in DOMAIN comp

\* C13: every flow of the non-convex group has, at every timestep t, a binary
\* status(t) and both constraints status(t) * min(t) * capacity <= flow(t) and
\* flow(t) <= status(t) * max(t) * capacity, whether or not it has a minimum.
C13_AsStated ==
    Committed =>
        \A f \in Range(group), t \in HorizonSteps :
            /\ Created("status")
            /\ HasStep(bvars["status"], f, t)
            /\ bvars["status"][<<f, t>>].within = "Binary"
            /\ Declared("min") /\ Declared("max")
            /\ HasStep(cons["min"], f, t)
            /\ HasStep(cons["max"], f, t)
            /\ LET lo == At(Val(flows(f).min), t) * flows(f).nominal_value
                   hi == At(flows(f).max, t) * flows(f).nominal_value
                   S == {vOnOff(f, t), vFlowAt(f, t)}
               IN /\ Means(cons["min"][<<f, t>>], S,
                           LAMBDA val : val[vOnOff(f, t)] * lo <= val[vFlowAt(f, t)])
                  /\ Means(cons["max"][<<f, t>>], S,
                           LAMBDA val : val[vFlowAt(f, t)] <= val[vOnOff(f, t)] * hi)

\* whether the flow asks for the tracking of its startups (shutdowns)
TracksStartups(f) ==
    nonconvex(f).startup_costs # None \/ nonconvex(f).maximum_startups # None
TracksShutdowns(f) ==
    nonconvex(f).shutdown_costs # None \/ nonconvex(f).maximum_shutdowns # None

\* the value standing for status(t-1): initial_status at the first timestep
Before(f, t, val) ==
    IF t = 0 THEN nonconvex(f).initial_status ELSE val[vOnOff(f, t - 1)]

\* the status variables a transition constraint of timestep t speaks about
StatusPair(f, t) ==
    IF t = 0 THEN {vOnOff(f, t)} ELSE {vOnOff(f, t), vOnOff(f, t - 1)}

\* C14: every non-convex flow with startup (shutdown) tracking has, at every
\* timestep t, a binary startup(t) (shutdown(t)) and the constraint
\* startup(t) >= status(t) - status(t-1) (shutdown(t) >= status(t-1) - status(t)),
\* with initial_status in place of status(t-1) at the first timestep only.
C14_Transitions ==
    Committed =>
        /\ Declared("startup_constr") /\ Declared("shutdown_constr")
        /\ DOMAIN cons["startup_constr"] =
              {<<f, t>> : f \in {g \in Range(group) : TracksStartups(g)},
                          t \in HorizonSteps}
        /\ DOMAIN cons["shutdown_constr"] =
              {<<f, t>> : f \in {g \in Range(group) : TracksShutdowns(g)},
                          t \in HorizonSteps}
        /\ \A f \in Range(group), t \in HorizonSteps :
              /\ TracksStartups(f) =>
                    /\ Created("startup")
                    /\ HasStep(bvars["startup"], f, t)
                    /\ bvars["startup"][<<f, t>>].within = "Binary"
                    /\ Means(cons["startup_constr"][<<f, t>>],
                             {vStartup(f, t)} \cup StatusPair(f, t),
                             LAMBDA val : val[vStartup(f, t)]
                                          >= val[vOnOff(f, t)] - Before(f, t, val))
              /\ TracksShutdowns(f) =>
                    /\ Created("shutdown")
                    /\ HasStep(bvars["shutdown"], f, t)
                    /\ bvars["shutdown"][<<f, t>>].within = "Binary"
                    /\ Means(cons["shutdown_constr"][<<f, t>>],
                             {vShutdown(f, t)} \cup StatusPair(f, t),
                             LAMBDA val : val[vShutdown(f, t)]
                                          >= Before(f, t, val) - val[vOnOff(f, t)])

\* a flow that is on before the horizon, with both trackings, formulated over
\* several timesteps
C14_Witness ==
    /\ Committed
    /\ cfg.horizon >= 3
    /\ \E f \in Range(group) :
          /\ TracksStartups(f) /\ TracksShutdowns(f)
          /\ nonconvex(f).initial_status = 1
          /\ <<f, 0>> \in DOMAIN cons["startup_constr"]
          /\ <<f, 2>> \in DOMAIN cons["shutdown_constr"]

\* the constraints of the block that are keyed by flow f
ConsOf(f) ==
    UNION {{cons[n][k] : k \in {j \in DOMAIN cons[n] : j[1] = f}} : n \in DOMAIN cons}

\* those of them that speak about the variables S only
ConsWithin(f, S) == {c \in ConsOf(f) : VarsOf(c) \subseteq S}

Satisfies(val, C) == \A c \in C : Holds(c, val)

\* the variables of the block that are keyed by flow f
StatusVars(f) == {vOnOff(f, t) : t \in HorizonSteps}
StartupVars(f) == {vStartup(f, t) : t \in HorizonSteps}
ShutdownVars(f) == {vShutdown(f, t) : t \in HorizonSteps}
FlowVars(f) == {vFlowAt(f, t) : t \in HorizonSteps}

\* the assignments of binary variables B and of flow variables F
Valuations(B, F) == [B \cup F -> 0..MaxVal]

IsBinary(val, B) == \A v \in B : val[v] \in {0, 1}

\* C15: for every non-convex flow and every timestep t, every assignment that
\* satisfies the emitted constraints has status(t) in {0, 1} and
\* startup(t) - shutdown(t) = status(t) - status(t-1), status(-1) being
\* initial_status.
C15_AsStated ==
    Committed =>
        \A f \in Range(group) :
            /\ Created("startup") /\ Created("shutdown")
            /\ \A t \in HorizonSteps :
                  /\ HasStep(bvars["status"], f, t)
                  /\ HasStep(bvars["startup"], f, t)
                  /\ HasStep(bvars["shutdown"], f, t)
            /\ LET B == StatusVars(f) \cup StartupVars(f) \cup ShutdownVars(f)
               IN \A val \in Valuations(B, FlowVars(f)) :
                     (IsBinary(val, B) /\ Satisfies(val, ConsOf(f))) =>
                        \A t \in HorizonSteps :
                           val[vStartup(f, t)] - val[vShutdown(f, t)]
                              = val[vOnOff(f, t)] - Before(f, t, val)

Pos(n) == IF n > 0 THEN n ELSE 0

\* the variables of the two transition constraints of timestep t
StepVars(f, t) == {vStartup(f, t), vShutdown(f, t)} \cup StatusPair(f, t)

\* C15 (amended): status(t) is a binary variable of every non-convex flow;
\* startup(t) exists exactly for the flows with startup tracking and
\* shutdown(t) exactly for those with shutdown tracking.  For a flow with both,
\* the two constraints of timestep t are satisfied by exactly the binary
\* values with startup(t) >= max(0, d) and shutdown(t) >= max(0, -d), where
\* d = status(t) - status(t-1) and status(-1) = initial_status; they admit
\* values with startup(t) - shutdown(t) # d.
C15_LowerBounds ==
    Committed =>
        \A f \in Range(group), t \in HorizonSteps :
            /\ HasStep(bvars["status"], f, t)
            /\ bvars["status"][<<f, t>>].within = "Binary"
            /\ TracksStartups(f) <=> (Created("startup") /\ HasStep(bvars["startup"], f, t))
            /\ TracksShutdowns(f) <=> (Created("shutdown") /\ HasStep(bvars["shutdown"], f, t))
            /\ (TracksStartups(f) /\ TracksShutdowns(f)) =>
                  LET su == cons["startup_constr"][<<f, t>>]
                      sd == cons["shutdown_constr"][<<f, t>>]
                      d(val) == val[vOnOff(f, t)] - Before(f, t, val)
                  IN /\ VarsOf(su) \cup VarsOf(sd) = StepVars(f, t)
                     /\ \A val \in [StepVars(f, t) -> {0, 1}] :
                           (Holds(su, val) /\ Holds(sd, val)) <=>
                              /\ val[vStartup(f, t)] >= Pos(d(val))
                              /\ val[vShutdown(f, t)] >= Pos(0 - d(val))
                     /\ \E val \in [StepVars(f, t) -> {0, 1}] :
                           /\ Holds(su, val) /\ Holds(sd, val)
                           /\ val[vStartup(f, t)] - val[vShutdown(f, t)] # d(val)

\* a flow with both trackings that is on before the horizon, formulated over
\* several timesteps
C15_Witness ==
    /\ Committed
    /\ cfg.horizon >= 2
    /\ \E f \in Range(group) :
          /\ TracksStartups(f) /\ TracksShutdowns(f)
          /\ nonconvex(f).initial_status = 1
          /\ HasStep(bvars["startup"], f, 1)
          /\ HasStep(bvars["shutdown"], f, 1)
          /\ <<f, 1>> \in DOMAIN cons["startup_constr"]
          /\ <<f, 1>> \in DOMAIN cons["shutdown_constr"]

\* the timesteps at which the status trajectory goes from 0 to 1
RisesOf(f, val) ==
    {t \in HorizonSteps : Before(f, t, val) = 0 /\ val[vOnOff(f, t)] = 1}
\* the timesteps at which it goes from 1 to 0
FallsOf(f, val) ==
    {t \in HorizonSteps : Before(f, t, val) = 1 /\ val[vOnOff(f, t)] = 0}

\* C16: for a non-convex flow with maximum_startups (maximum_shutdowns) set,
\* every binary assignment of its status and startup (shutdown) variables that
\* satisfies the constraints emitted over them goes from 0 to 1 (from 1 to 0)
\* at no more than maximum_startups (maximum_shutdowns) timesteps, a
\* transition from initial_status at the first timestep counted.
C16_Caps ==
    Committed =>
        \A f \in Range(group) :
            /\ nonconvex(f).maximum_startups # None =>
                  LET S == StatusVars(f) \cup StartupVars(f)
                      C == ConsWithin(f, S)
                  IN /\ Declared("max_startup_constr")
                     /\ <<f>> \in DOMAIN cons["max_startup_constr"]
                     /\ \A val \in [S -> {0, 1}] :
                           Satisfies(val, C) =>
                              Cardinality(RisesOf(f, val))
                                 <= Val(nonconvex(f).maximum_startups)
            /\ nonconvex(f).maximum_shutdowns # None =>
                  LET S == StatusVars(f) \cup ShutdownVars(f)
                      C == ConsWithin(f, S)
                  IN /\ Declared("max_shutdown_constr")
                     /\ <<f>> \in DOMAIN cons["max_shutdown_constr"]
                     /\ \A val \in [S -> {0, 1}] :
                           Satisfies(val, C) =>
                              Cardinality(FallsOf(f, val))
                                 <= Val(nonconvex(f).maximum_shutdowns)

\* a flow that is off before the horizon and may start once, formulated over
\* enough timesteps to start twice
C16_Witness ==
    /\ Committed
    /\ cfg.horizon >= 4
    /\ \E f \in Range(group) :
          /\ nonconvex(f).maximum_startups = Some(1)
          /\ nonconvex(f).maximum_shutdowns = Some(1)
          /\ nonconvex(f).initial_status = 0
          /\ <<f>> \in DOMAIN cons["max_startup_constr"]
          /\ <<f>> \in DOMAIN cons["max_shutdown_constr"]

\* the timesteps t with max_up_down <= t <= last timestep - max_up_down
Interior(f) ==
    {t \in HorizonSteps : /\ nonconvex(f).max_up_down <= t
                          /\ t <= (cfg.horizon - 1) - nonconvex(f).max_up_down}

\* the binary status trajectories of flow f that satisfy every constraint
\* emitted over its status variables
Trajectories(f) ==
    LET C == ConsWithin(f, StatusVars(f))
    IN {val \in [StatusVars(f) -> {0, 1}] : Satisfies(val, C)}

\* C17: for a non-convex flow with minimum_uptime U (minimum_downtime D) and
\* every timestep t of the interior window, a status trajectory that rises at
\* t has status(t+n) = 1 for every n in 0..U-1, and one that falls at t has
\* status(t+n) = 0 for every n in 0..D-1.
C17_MinTimes ==
    Committed =>
        \A f \in Range(group) : \A val \in Trajectories(f) : \A t \in Interior(f) :
            /\ (nonconvex(f).minimum_uptime # None /\ t \in RisesOf(f, val)) =>
                  \A n \in 0..(Val(nonconvex(f).minimum_uptime) - 1) :
                      /\ t + n \in HorizonSteps
                      /\ val[vOnOff(f, t + n)] = 1
            /\ (nonconvex(f).minimum_downtime # None /\ t \in FallsOf(f, val)) =>
                  \A n \in 0..(Val(nonconvex(f).minimum_downtime) - 1) :
                      /\ t + n \in HorizonSteps
                      /\ val[vOnOff(f, t + n)] = 0

\* a flow with a minimum uptime and downtime of two timesteps whose
\* constraints admit a rise or a fall inside the window
C17_Witness ==
    /\ Committed
    /\ \E f \in Range(group) :
          /\ nonconvex(f).minimum_uptime = Some(2)
          /\ nonconvex(f).minimum_downtime = Some(2)
          /\ \E val \in Trajectories(f) : \E t \in Interior(f) :
                t \in RisesOf(f, val) \cup FallsOf(f, val)

\* strictly inside [max_up_down, last timestep - max_up_down]
StrictlyInside(f, t) ==
    /\ nonconvex(f).max_up_down < t
    /\ t < (cfg.horizon - 1) - nonconvex(f).max_up_down

\* the constraint says status(t) = initial_status
Pins(c, f, t) ==
    /\ c.op = "=="
    /\ Means(c, {vOnOff(f, t)},
             LAMBDA val : val[vOnOff(f, t)] = nonconvex(f).initial_status)

\* C18: for a non-convex flow with a minimum uptime or downtime, the
\* constraint of every timestep that is not strictly inside
\* [min_updowntime, horizon_end - min_updowntime], both endpoints of the
\* window included, says status(t) = initial_status, and the sliding-window
\* inequality is emitted only for the timesteps strictly inside.
C18_AsStated ==
    Committed =>
        \A f \in Range(group), t \in HorizonSteps :
            /\ nonconvex(f).minimum_uptime # None =>
                  LET c == cons["min_uptime_constr"][<<f, t>>]
                  IN IF StrictlyInside(f, t) THEN c.op = "<=" ELSE Pins(c, f, t)
            /\ nonconvex(f).minimum_downtime # None =>
                  LET c == cons["min_downtime_constr"][<<f, t>>]
                  IN IF StrictlyInside(f, t) THEN c.op = "<=" ELSE Pins(c, f, t)

\* Scenario C as the constraints have it
ScenarioC(f) ==
    /\ nonconvex(f).minimum_uptime = Some(2)
    /\ nonconvex(f).max_up_down = 2
    /\ nonconvex(f).initial_status = 0

----------------------------------------------------------------------------
(* The objective.                                                          *)

\* C21: the objective contribution of a block that was created with no group
\* is zero and computing it raises no error, for the plain flow block, the
\* investment flow block and the non-convex flow block, whatever the flows of
\* the model that have another shape carry.
C21_AsStated ==
    (cfg.group = None /\ pc \in {"costed", "raised"}) =>
        /\ err = None
        /\ obj # None
        /\ obj.terms = << >>

\* the objective of an investment block in multi-period mode has been built
AnnuitiesBuilt ==
    /\ pc = "costed"
    /\ blk \in {"InvestmentFlowBlock", "MultiPeriodInvestmentFlow"}
    /\ cfg.multi_period
    /\ cfg.group # None

\* the interest rates the annuity summands of flow f for period p are built on
RatesUsed(f, p) ==
    {obj.terms[k][2][4] : k \in {j \in DOMAIN obj.terms :
        /\ obj.terms[j][1] = V("invest", f, p, NoIdx)
        /\ obj.terms[j][2][1] = "annuity"}}

\* C22: in multi-period mode every investment flow, convex or not, that gives
\* no interest rate (interest_rate = 0) is warned about once and its annuity
\* is built on the discount rate of the model; a flow with an interest rate
\* of its own is not warned about and its annuity is built on that rate; no
\* error is raised and an annuity summand is produced for every flow and
\* every period.
C22_Interest ==
    AnnuitiesBuilt =>
        /\ err = None
        /\ Range(obj.warnings) = {f \in Range(group) : investment(f).interest_rate = 0}
        /\ Len(obj.warnings) = Cardinality(Range(obj.warnings))
        /\ "investment_costs" \in obj.attrs
        /\ \A f \in Range(group) : \A p \in PERIODS :
              RatesUsed(f, p) =
                  {IF investment(f).interest_rate = 0 THEN <<"discount_rate">>
                   ELSE <<"interest_rate", investment(f).interest_rate>>}

\* a non-convex flow without and a convex flow with an interest rate, costed
\* over several periods
C22_Witness ==
    /\ AnnuitiesBuilt
    /\ Len(cfg.years) >= 2
    /\ \E f, g \in Range(group) :
          /\ investment(f).interest_rate = 0
          /\ investment(f).nonconvex
          /\ investment(g).interest_rate # 0
          /\ ~investment(g).nonconvex

----------------------------------------------------------------------------
(* Limits on the investment costs.                                         *)

\* C23: multiperiodinvestment_limit raises ValueError and adds no constraint
\* when the model is not a multi-period model; otherwise it raises nothing
\* and adds exactly one constraint, the sum of the investment_costs of the
\* multi-period investment blocks of the model (zero for a block type that
\* is absent) <= limit, and leaves the rest of the model as it was.
C23_AsStated ==
    [][MultiperiodInvestmentLimit =>
        IF ~cfg.multi_period
        THEN /\ err'[1] = "ValueError"
             /\ cons' = cons
        ELSE /\ err' = None
             /\ DOMAIN cons' = DOMAIN cons \cup {"multiperiodinvestment_limit"}
             /\ "multiperiodinvestment_limit" \notin DOMAIN cons
             /\ \A n \in DOMAIN cons : cons'[n] = cons[n]
             /\ cons'["multiperiodinvestment_limit"].op = "<="
             /\ cons'["multiperiodinvestment_limit"].rhs = cfg.limit
             /\ \A b \in SummedBlocks \cap ModelBlocks :
                   \A k \in DOMAIN investment_costs(b) :
                      \E j \in DOMAIN cons'["multiperiodinvestment_limit"].lhs :
                         cons'["multiperiodinvestment_limit"].lhs[j]
                            = investment_costs(b)[k]]_vars

\* the name the docstring gives to the expression: invest_limit_${keyword}
documented_name == "invest_limit_space"

\* C24: additional_multiperiodinvestment_flow_limit raises ValueError on a
\* model that is not a multi-period model; on a multi-period model it raises
\* nothing whether or not a flow lacks the keyword attribute, adds an
\* expression that can be retrieved as invest_limit_<keyword> and that has
\* one summand, invested capacity times weight, for exactly the flows whose
\* investment has the keyword attribute, and adds the constraint
\* expression <= limit.
C24_AsStated ==
    [][AdditionalLimit =>
        IF ~cfg.multi_period
        THEN err'[1] = "ValueError"
        ELSE /\ err' = None
             /\ documented_name \in DOMAIN cons'
             /\ Len(cons'[documented_name]) = Len(multiperiodinvest_flows)
             /\ \E n \in DOMAIN cons' :
                   /\ n \notin DOMAIN cons
                   /\ n # documented_name
                   /\ cons'[n] = [lhs |-> <<documented_name>>, op |-> "<=",
                                  rhs |-> cfg.limit]]_vars

----------------------------------------------------------------------------
(* A converter with several inputs.                                        *)

\* the network of the test
IsTestNetwork ==
    /\ "fix" \in DOMAIN cfg
    /\ cfg.fix[<<gas_station, b_gas>>] = <<120, 0>>
    /\ cfg.fix[<<hydro_station, b_hydro>>] = <<0, 130>>
    /\ cfg.fix[<<b_electricity, demand>>] = <<100, 100>>

\* every block of the model has been asked for its constraints
MimoBuilt == blk = "Transformer" /\ pc \in {"done", "raised"}

\* the flow and the timestep a variable stands for, whether the block
\* writes it flow[i, o, t] or flow[i, o, p, t]
FlowAt(v) == <<v[2], v[4]>>

AllCons == UNION {Range(cons[n]) : n \in DOMAIN cons}

\* The constraints can be satisfied together.  No constraint couples two
\* timesteps, so each timestep is decided by itself; every flow that is not
\* fixed is, by the balance of a bus with one inflow and one outflow, equal
\* to a fixed flow, so its value is one of the fixed values.
Satisfiable ==
    LET C == AllCons
        values == {0} \cup UNION {Range(cfg.fix[io]) : io \in DOMAIN cfg.fix}
        keys == {FlowAt(v) : v \in UNION {VarsOf(c) : c \in C}}
    IN \A t \in TIMESTEPS :
          LET Ct == {c \in C : \E v \in VarsOf(c) : v[4] = t}
              Kt == {k \in keys : k[2] = t}
          IN \E val \in [Kt -> values] :
                \A c \in Ct : Holds(c, [v \in VarsOf(c) |-> val[FlowAt(v)]])

\* C25: for the network of the test (gas fixed to [120, 0], hydro fixed to
\* [0, 130], demand fixed to [100, 100], a converter with the inputs gas and
\* hydro, factors 1.2 and 1.3, and the output electricity) the model is
\* built without error and its fixed flows, bus balances and conversion
\* relations can be satisfied together.
C25_AsStated ==
    (IsTestNetwork /\ MimoBuilt) =>
        /\ err = None
        /\ Satisfiable

----------------------------------------------------------------------------
(* Ramps of the plain flows.                                               *)

\* the formulation of a plain block that got a group has ended
Ramped == Plain /\ cfg.group # None /\ pc \in {"done", "raised"}

\* the flow variable of timestep t: in the multi-period block it carries the
\* period of t
FlowOfStep(f, t) == PlainFlow(f, PeriodOf(t), t)

\* the key of the ramp constraint of flow f at timestep t
RampKey(f, t) == IF blk = "Flow" THEN <<f, t>> ELSE <<f, PeriodOf(t), t>>

\* the ramp constraints of one direction, one for every timestep but the first
RampsAsStated(name, over, up) ==
    /\ name \in DOMAIN cons
    /\ \A f \in Members(over) :
          /\ \A t \in TIMESTEPS \ {0} :
                /\ RampKey(f, t) \in DOMAIN cons[name]
                /\ cons[name][RampKey(f, t)] =
                      IF up
                      THEN Le(Minus(FlowOfStep(f, t), FlowOfStep(f, t - 1)),
                              positive_gradient(f, t))
                      ELSE Le(Minus(FlowOfStep(f, t - 1), FlowOfStep(f, t)),
                              negative_gradient(f, t))
          /\ RampKey(f, 0) \notin DOMAIN cons[name]

\* C26: for every plain flow with a positive (negative) gradient limit the
\* formulation ends without error with a ramp constraint
\* flow(t) - flow(t-1) <= positive_gradient(t)
\* (flow(t-1) - flow(t) <= negative_gradient(t)) for every timestep of the
\* horizon but the first, t-1 being the timestep before t also when t is the
\* first timestep of a later period, and every gradient variable is bounded
\* above by ub(t) * nominal_value.
C26_AsStated ==
    Ramped =>
        /\ err = None
        /\ RampsAsStated("positive_gradient_constr", "POSITIVE_GRADIENT_FLOWS", TRUE)
        /\ RampsAsStated("negative_gradient_constr", "NEGATIVE_GRADIENT_FLOWS", FALSE)
        /\ \A k \in DOMAIN bvars["positive_gradient"] :
              bvars["positive_gradient"][k].ub =
                 Some(At(Val(flows(k[1]).positive_gradient.ub), k[2])
                      * Val(flows(k[1]).nominal_value))
        /\ \A k \in DOMAIN bvars["negative_gradient"] :
              bvars["negative_gradient"][k].ub =
                 Some(At(Val(flows(k[1]).negative_gradient.ub), k[2])
                      * Val(flows(k[1]).nominal_value))

----------------------------------------------------------------------------
(* Aggregate limits of the investment flows.                               *)

\* the formulation of an investment block that got a group has ended
Sized ==
    /\ blk \in {"InvestmentFlowBlock", "MultiPeriodInvestmentFlow"}
    /\ cfg.group # None
    /\ pc = "done"

\* the names of the upper and the lower aggregate constraint in the block
AggregateMax == IF blk = "InvestmentFlowBlock" THEN "full_load_time_max" ELSE "summed_max"
AggregateMin == IF blk = "InvestmentFlowBlock" THEN "full_load_time_min" ELSE "summed_min"

\* sum over all (period, timestep) of flow(p, t) * duration(t)
Energy(f) ==
    Lin(0, [v \in {V("flow", f, PeriodOf(t), t) : t \in TIMESTEPS} |->
               timeincrement(v[4])])

\* k * total(p) for the periods of P
Capacity(f, k, P) == Lin(0, [v \in {V("total", f, p, NoIdx) : p \in P} |-> k])

----------------------------------------------------------------------------
(* Decommissioning in the MultiPeriodInvestmentFlow block.                 *)

\* the block has been formulated for a group
SizedOld == Sized /\ blk = "MultiPeriodInvestmentFlow"

\* the decommissioned capacity of period p as the class documentation
\* gives it
OldAsDocumented(f, p) ==
    LET lifetime == Val(flows(f).lifetime)
        age == flows(f).age
    IN IF p > lifetime
       THEN Eq(old(f, p), invest(f, p - lifetime))
       ELSE IF p = lifetime - age
       THEN Eq(old(f, p), Plus(Const(flows(f).existing), invest(f, 0)))
       ELSE Eq(old(f, p), Const(0))

\* the periods whose decommissioning takes invest(k) of flow f
TakenIn(f, k) ==
    {p \in PERIODS : V("invest", f, k, NoIdx) \in DOMAIN cons["old_rule"][<<f, p>>].rhs.ts}

\* the periods whose decommissioning takes the existing capacity of flow f
ExistingTakenIn(f) ==
    {p \in PERIODS : cons["old_rule"][<<f, p>>].rhs.c = flows(f).existing}

\* C28: in the MultiPeriodInvestmentFlow block old(p) == invest(p - lifetime)
\* for every p > lifetime, old(p) == existing + invest(0) for
\* p == lifetime - age and old(p) == 0 in every other period; so an existing
\* capacity is decommissioned in exactly one period whenever lifetime - age
\* is a period of the model, and no investment is taken from the total in
\* more than one period.
C28_AsStated ==
    SizedOld =>
        \A f \in Range(group) :
            /\ \A p \in PERIODS : cons["old_rule"][<<f, p>>] = OldAsDocumented(f, p)
            /\ (flows(f).existing > 0
                /\ Val(flows(f).lifetime) - flows(f).age \in PERIODS) =>
                    Cardinality(ExistingTakenIn(f)) = 1
            /\ \A k \in PERIODS : Cardinality(TakenIn(f, k)) <= 1

----------------------------------------------------------------------------
(* Decommissioning in the InvestmentFlowBlock over periods of any length.  *)

\* the block has been formulated for a group in multi-period mode
SizedEnd == Sized /\ blk = "InvestmentFlowBlock" /\ cfg.multi_period

\* the periods whose old_end takes invest(k) of flow f
EndTakenIn(f, k) ==
    {p \in PERIODS :
        V("invest", f, k, NoIdx) \in DOMAIN cons["old_rule_end"][<<f, p>>].rhs.ts}

\* C29: for any strictly increasing year offsets that start at 0 and any
\* lifetime >= 1, the investment that old_end(p) takes is one of an earlier
\* period, the investment of a period is taken by old_end of at most one
\* period, and an investment whose lifetime ends no later than the year of
\* the last period is taken in exactly one period.
C29_AsStated ==
    SizedEnd =>
        \A f \in Range(group) : \A k \in PERIODS :
            /\ \A p \in EndTakenIn(f, k) : k < p
            /\ Cardinality(EndTakenIn(f, k)) <= 1
            /\ periods_years(k) + Val(investment(f).lifetime)
                  <= periods_years(Len(cfg.years) - 1) =>
                  Cardinality(EndTakenIn(f, k)) = 1

----------------------------------------------------------------------------
(* Minimum up- and downtime over the whole horizon.                        *)

\* a flow with both minimum times on a horizon of at least twice the larger
BothTimed(f) ==
    /\ nonconvex(f).minimum_uptime # None
    /\ nonconvex(f).minimum_downtime # None
    /\ cfg.horizon >= 2 * nonconvex(f).max_up_down

\* the status variables that the minimum time constraints of flow f mention
TimedVars(f) ==
    UNION {UNION {VarsOf(cons[n][k]) : k \in {x \in DOMAIN cons[n] : x[1] = f}} :
              n \in {"min_uptime_constr", "min_downtime_constr"}}

\* the maximal runs <<first, last>> of status = s in a trajectory
RunsOf(f, val, s) ==
    {r \in HorizonSteps \X HorizonSteps :
        /\ r[1] <= r[2]
        /\ \A t \in r[1]..r[2] : val[vOnOff(f, t)] = s
        /\ r[1] - 1 \in HorizonSteps => val[vOnOff(f, r[1] - 1)] # s
        /\ r[2] + 1 \in HorizonSteps => val[vOnOff(f, r[2] + 1)] # s}

\* C30: for a non-convex flow with minimum_uptime U >= 1 and
\* minimum_downtime D >= 1 on a horizon of at least 2 * max(U, D) timesteps,
\* every status variable that an uptime or downtime constraint mentions has
\* its timestep inside the horizon, and in every status trajectory that
\* satisfies the constraints every maximal run of status = 1 is at least U
\* long and every maximal run of status = 0 at least D long, the runs that
\* touch the first or the last timestep included.
C30_MinRuns ==
    Committed =>
        \A f \in {g \in Range(group) : BothTimed(g)} :
            /\ \A v \in TimedVars(f) : v[1] = "status" /\ v[4] \in HorizonSteps
            /\ \A val \in Trajectories(f) :
                  /\ \A r \in RunsOf(f, val, 1) :
                        r[2] - r[1] + 1 >= Val(nonconvex(f).minimum_uptime)
                  /\ \A r \in RunsOf(f, val, 0) :
                        r[2] - r[1] + 1 >= Val(nonconvex(f).minimum_downtime)

\* a flow with minimum times of two timesteps and a trajectory with a run of
\* each status that does not touch the horizon's ends
C30_Witness ==
    /\ Committed
    /\ \E f \in Range(group) :
          /\ BothTimed(f)
          /\ Val(nonconvex(f).minimum_uptime) = 2
          /\ Val(nonconvex(f).minimum_downtime) = 2
          /\ TimedVars(f) # {}
          /\ \E val \in Trajectories(f) :
                \E r \in RunsOf(f, val, 1 - nonconvex(f).initial_status) :
                    r[1] > 0 /\ r[2] < cfg.horizon - 1

====
